---- MODULE Spec2Model ----
(***************************************************************************)
(* Schema-qualified DDL generation of django.db.backends: the pending-     *)
(* reference protocol of BaseDatabaseCreation, the MySQL and Oracle        *)
(* overrides of the inline-reference eligibility rule, Oracle's two-pass   *)
(* cross-schema coordinator (post_create_pending_references and            *)
(* _run_sql_as_user), the drop path (sql_destroy_model), the index pass    *)
(* (sql_indexes_for_model), the per-backend schema resolvers               *)
(* (qname_converter), QName itself, the table loop of inspectdb, and the   *)
(* provisioning of the test database, its schemas and its Oracle user.     *)
(*                                                                         *)
(* Identifiers are sequences of one-character strings, so that formatting, *)
(* quoting, truncation and the digest are computed and not assumed.  A     *)
(* statement is a record of the parts the code formats into its text.      *)
(***************************************************************************)
EXTENDS Integers, Sequences, FiniteSets, TLC

VARIABLES
    backend,              \* which DatabaseCreation class is in use
    models,               \* model id -> _meta of the model class
    settings_dict,        \* connection.settings_dict
    conn_open,            \* whether connection holds an open database connection
    pc,                   \* position of the caller / coordinator
    next_model,           \* next model of the batch to create or destroy
    known_models,         \* models whose CREATE TABLE was emitted
    pending_references,   \* the batch map: target model -> <<(model, field)>>
    output,               \* statements returned by the creation calls so far
    last_create,          \* arguments and result of the last sql_create_model
    as_sql,               \* the as_sql flag of post_create_pending_references
    todo1, todo2,         \* schemas Pass 1 / Pass 2 still have to visit
    post_sql,             \* the list post_create_pending_references builds
    run,                  \* frame of the _run_sql_as_user call in progress
    last_run,             \* what the last finished _run_sql_as_user call did
    executed,             \* statements a cursor executed, with the USER in force
    error,                \* the exception that ended the run, if any
    references_to_delete, \* drop path: target model -> <<(model, field)>>
    drop_output,          \* statements returned by the destroy calls so far
    last_destroy,         \* argument and result of the last sql_destroy_model
    listing,              \* what the coordinator's as_sql=True call lists
    indexed,              \* the sql_indexes_for_model results, model by model
    qname_in,             \* a QName handed to the naming functions
    other_in,             \* a second QName, to compare and to reference
    resolved,             \* the qname_converter calls made on qname_in
    compared,             \* result of comparing qname_in with other_in
    qualified,            \* result of django.db.qualified_name
    separate,             \* result of needs_separate_conn(qname_in, other)
    insp_tables,          \* inspectdb: what the introspection returns
    insp_filter,          \* inspectdb: the qname_filter option
    insp_pos,             \* inspectdb: position in the table_names list
    insp_lines,           \* inspectdb: the lines yielded so far
    insp_known,           \* inspectdb: its known_models list
    insp_reads,           \* inspectdb: tables whose relations, indexes and
                          \* description were read
    insp_impl,            \* inspectdb: the introspection calls the backend
                          \* implements
    prov                  \* test provisioning: the server, the prompt, the
                          \* calls made and the _execute_statements frame

vars == <<backend, models, settings_dict, conn_open, pc, next_model,
          known_models, pending_references, output, last_create, as_sql,
          todo1, todo2, post_sql, run, last_run, executed, error,
          references_to_delete, drop_output, last_destroy, listing,
          indexed, qname_in, other_in, resolved, compared, qualified, separate,
          insp_tables, insp_filter, insp_pos, insp_lines, insp_known,
          insp_reads, insp_impl, prov>>

\* the state of an inspectdb run
insp_vars == <<insp_tables, insp_filter, insp_pos, insp_lines, insp_known,
               insp_reads, insp_impl>>

\* what the creation of a batch leaves alone
unit_vars == <<indexed, qname_in, other_in, resolved, compared, qualified,
               separate, insp_vars, prov>>

----------------------------------------------------------------------------
(* Bounds and the universe of the batch *)

\* the largest number of foreign-key fields declared in one batch
MaxFKs == 2

\* the model classes of a batch, created in this order
ModelIds == {1, 2, 3}

\* Python's None and '' (both falsy) for a schema
None == << >>

Alphabet ==
    <<"a", "b", "c", "d", "e", "f", "g", "h", "i", "j", "k", "l", "m", "n",
      "o", "p", "q", "r", "s", "t", "u", "v", "w", "x", "y", "z", "A", "B",
      "C", "D", "E", "F", "G", "H", "I", "J", "K", "L", "M", "N", "O", "P",
      "Q", "R", "S", "T", "U", "V", "W", "X", "Y", "Z", "0", "1", "2", "3",
      "4", "5", "6", "7", "8", "9", "_", "\"", ".">>

HexDigits ==
    <<"0", "1", "2", "3", "4", "5", "6", "7", "8", "9", "a", "b", "c", "d", "e", "f">>

s_schema1 == <<"s", "c", "h", "e", "m", "a", "1">>
s_schema2 == <<"s", "c", "h", "e", "m", "a", "2">>
s_scott == <<"s", "c", "o", "t", "t">>
s_db == <<"d", "b">>
s_sn == <<"s", "n">>
s_bar == <<"b", "a", "r">>
s_id == <<"i", "d">>
s_refs == <<"_", "r", "e", "f", "s", "_">>
s_us == <<"_">>
s_dot == <<".">>
s_quote == <<"\"">>

RECURSIVE Rep(_, _)
Rep(c, n) == IF n = 0 THEN << >> ELSE <<c>> \o Rep(c, n - 1)

\* a column name long enough to be truncated on every backend
s_long == <<"f", "k">> \o Rep("x", 60) \o <<"_", "i", "d">>

----------------------------------------------------------------------------
(* Strings, the digest and the external naming helpers *)

Code(c) == CHOOSE i \in 1..Len(Alphabet) : Alphabet[i] = c

RECURSIVE ToHex(_)
ToHex(n) ==
    IF n < 16 THEN <<HexDigits[n + 1]>>
    ELSE ToHex(n \div 16) \o <<HexDigits[(n % 16) + 1]>>

Hex4(n) ==
    <<HexDigits[(n \div 4096) + 1], HexDigits[((n \div 256) % 16) + 1],
      HexDigits[((n \div 16) % 16) + 1], HexDigits[(n % 16) + 1]>>

\* one step of the hash, on a 32-bit value kept as <<high, low>> 16-bit halves
HashStep(h, code) ==
    LET lo == h[2] * 31 + code
        hi == h[1] * 31 + (lo \div 65536)
    IN  <<hi % 65536, lo % 65536>>

\* the hash of h continued over the characters of s, left to right; the
\* left half is worked out before the right half starts from it
RECURSIVE HashStr(_, _)
HashStr(h, s) ==
    IF s = << >> THEN h
    ELSE IF Len(s) = 1 THEN HashStep(h, Code(s[1]))
    ELSE LET half == Len(s) \div 2
             left == HashStr(h, SubSeq(s, 1, half))
         IN  IF left[1] >= 0
             THEN HashStr(left, SubSeq(s, half + 1, Len(s)))
             ELSE left

RECURSIVE HashArgs(_, _)
HashArgs(h, args) ==
    IF args = << >> THEN h
    ELSE HashArgs(HashStep(HashStr(h, Head(args)), 0), Tail(args))

\* '%x' % (abs(hash(args)) % 2**32): a deterministic 32-bit value of the
\* argument tuple, in lowercase hex without leading zeros
digest(args) ==
    LET h == HashArgs(<<0, 0>>, args)
    IN  IF h[1] = 0 THEN ToHex(h[2]) ELSE ToHex(h[1]) \o Hex4(h[2])

QName(schema, table, db_format, model) ==
    [schema |-> schema, table |-> table, db_format |-> db_format, model |-> model]

\* connection.ops.quote_name
quote_name(name) == s_quote \o name \o s_quote

\* connection.ops.compose_qualified_name
compose_qualified_name(qname) ==
    IF qname.schema # None
    THEN quote_name(qname.schema) \o s_dot \o quote_name(qname.table)
    ELSE quote_name(qname.table)

\* connection.ops.max_name_length()
max_name_length ==
    CASE backend = "oracle" -> 30
      [] backend = "mysql" -> 64
      [] OTHER -> 63

\* django.db.backends.util.truncate_name: the identity within the limit;
\* beyond it characters are dropped from the front, keeping the trailing digest
truncate_name(name, length) ==
    IF Len(name) <= length THEN name
    ELSE SubSeq(name, Len(name) - length + 1, Len(name))

\* connection.convert_schema: the connection's default schema when absent
convert_schema(schema) ==
    IF schema # None THEN schema ELSE settings_dict.SCHEMA

\* connection.qualified_name(model): the name as declared, not yet resolved
connection_qualified_name(m) ==
    QName(models[m].db_schema, models[m].db_table, FALSE, m)

\* connection.features.interprets_empty_strings_as_nulls
interprets_empty_strings_as_nulls == backend = "oracle"

\* opts.get_field(f.rel.field_name).column: the referenced (primary key) column
RelColumn(t) ==
    LET fs == models[t].local_fields
    IN  fs[CHOOSE i \in 1..Len(fs) : fs[i].primary_key].column

----------------------------------------------------------------------------
(* Schema resolvers *)

\* the resolver without the substitution of connection.schema
PostgreSQL_qname_converter_schema_kept(qname, force_schema) ==
    IF qname.db_format THEN qname
    ELSE QName(qname.schema, qname.table, TRUE, qname.model)

\* the resolver with the connection's USER as the forced fallback
PostgreSQL_qname_converter_forced_user(qname, force_schema) ==
    IF qname.db_format THEN qname
    ELSE LET schema == IF qname.schema # None THEN qname.schema
                       ELSE settings_dict.SCHEMA
         IN  QName(IF schema = None /\ force_schema
                   THEN settings_dict.USER ELSE schema,
                   qname.table, TRUE, qname.model)

\* the resolver keeping the db_format of its argument
MySQL_qname_converter_format_kept(qname, force_schema) ==
    IF qname.db_format /\ (qname.schema # None \/ ~force_schema) THEN qname
    ELSE LET schema == convert_schema(qname.schema)
         IN  QName(IF schema = None /\ force_schema
                   THEN settings_dict.NAME ELSE schema,
                   qname.table, qname.db_format, qname.model)

\* a resolver that fakes the schema by prefixing it to the table name
MySQL_qname_converter_prefixing(qname, force_schema) ==
    IF qname.db_format /\ (qname.schema # None \/ ~force_schema) THEN qname
    ELSE LET schema == convert_schema(qname.schema)
         IN  IF schema = None
             THEN QName(None, qname.table, TRUE, qname.model)
             ELSE QName(None, schema \o <<"_">> \o qname.table, TRUE,
                        qname.model)

MySQL_qname_converter(qname, force_schema) ==
    IF qname.db_format /\ (qname.schema # None \/ ~force_schema) THEN qname
    ELSE LET schema == convert_schema(qname.schema)
         IN  QName(IF schema = None /\ force_schema
                   THEN settings_dict.NAME ELSE schema,
                   qname.table, TRUE, qname.model)

\* the resolver with the connection's NAME as the forced fallback
Oracle_qname_converter_name_fallback(qname, force_schema) ==
    IF qname.db_format /\ (qname.schema # None \/ ~force_schema) THEN qname
    ELSE LET schema == convert_schema(qname.schema)
         IN  QName(IF schema = None /\ force_schema
                   THEN settings_dict.NAME ELSE schema,
                   qname.table, TRUE, qname.model)

Oracle_qname_converter(qname, force_schema) ==
    IF qname.db_format /\ (qname.schema # None \/ ~force_schema) THEN qname
    ELSE LET schema == convert_schema(qname.schema)
         IN  QName(IF schema = None /\ force_schema
                   THEN settings_dict.USER ELSE schema,
                   qname.table, TRUE, qname.model)

PostgreSQL_qname_converter(qname, force_schema) ==
    IF qname.db_format THEN qname
    ELSE QName(IF qname.schema # None THEN qname.schema ELSE settings_dict.SCHEMA,
               qname.table, TRUE, qname.model)

\* Oracle: the schema (user) that owns the model's table
OwnerSchema(m) ==
    Oracle_qname_converter(connection_qualified_name(m), TRUE).schema

\* Oracle: the schema of QName(None, None, False) resolved with force_schema
DefaultSchema == Oracle_qname_converter(QName(None, None, FALSE, 0), TRUE).schema

\* the names handed to the resolver, the first of them without its table
needs_separate_conn_args_bare_from(from_qname, to_qname) ==
    <<QName(None, None, FALSE, 0),
      QName(from_qname.schema, None, FALSE, from_qname.model), to_qname>>

\* Oracle: the names needs_separate_conn hands to the resolver, in order
needs_separate_conn_args(from_qname, to_qname) ==
    <<QName(None, None, FALSE, 0), from_qname, to_qname>>

needs_separate_conn_to_only(from_qname, to_qname) ==
    LET f == Oracle_qname_converter(from_qname, TRUE)
        t == Oracle_qname_converter(to_qname, TRUE)
    IN  t.schema # f.schema

needs_separate_conn(from_qname, to_qname) ==
    LET def_schema == DefaultSchema
        f == Oracle_qname_converter(from_qname, TRUE)
        t == Oracle_qname_converter(to_qname, TRUE)
    IN  def_schema # f.schema \/ t.schema # f.schema

----------------------------------------------------------------------------
(* Statements and the pending-reference map *)

BlankStmt ==
    [kind |-> "", table |-> << >>, name |-> << >>, column |-> << >>,
     ref_table |-> << >>, ref_column |-> << >>, columns |-> << >>,
     user |-> << >>, model |-> 0, field |-> 0, target |-> 0]

EmptyMap == [k \in {} |-> << >>]

\* d.setdefault(k, []).append(x)
MapAppend(d, k, x) ==
    IF k \in DOMAIN d THEN [d EXCEPT ![k] = Append(@, x)]
    ELSE [j \in DOMAIN d \cup {k} |-> IF j = k THEN <<x>> ELSE d[j]]

\* del d[k]
MapDel(d, k) == [j \in DOMAIN d \ {k} |-> d[j]]

\* for k, v in other.items(): d.setdefault(k, []).extend(v)
MapMerge(d, other) ==
    [j \in DOMAIN d \cup DOMAIN other |->
        (IF j \in DOMAIN d THEN d[j] ELSE << >>)
        \o (IF j \in DOMAIN other THEN other[j] ELSE << >>)]

Range(s) == {s[i] : i \in DOMAIN s}

----------------------------------------------------------------------------
(* Inline-reference eligibility and CREATE TABLE *)

Base_qualified_name_for_ref(from_table, ref_table) ==
    compose_qualified_name(ref_table)

MySQL_qualified_name_for_ref(from_table, ref_table) ==
    LET to_qn == MySQL_qname_converter(ref_table, FALSE)
    IN  Base_qualified_name_for_ref(
            MySQL_qname_converter(from_table, FALSE),
            IF to_qn.schema = None
            THEN QName(settings_dict.NAME, to_qn.table, to_qn.db_format, 0)
            ELSE to_qn)

qualified_name_for_ref(from_table, ref_table) ==
    IF backend = "mysql" THEN MySQL_qualified_name_for_ref(from_table, ref_table)
    ELSE Base_qualified_name_for_ref(from_table, ref_table)

Base_inline_always_pending(m, i, known) ==
    [output |-> << >>, pending |-> TRUE]

Base_inline_known_negated(m, i, known) ==
    LET field == models[m].local_fields[i]
        qname == compose_qualified_name(connection_qualified_name(field.rel))
    IN  IF field.rel \notin known
        THEN [output |-> <<[kind |-> "REFERENCES", ref_table |-> qname,
                            ref_column |-> quote_name(RelColumn(field.rel))]>>,
              pending |-> FALSE]
        ELSE [output |-> << >>, pending |-> TRUE]

Base_sql_for_inline_foreign_key_references(m, i, known) ==
    LET field == models[m].local_fields[i]
        qname == qualified_name_for_ref(connection_qualified_name(m),
                                        connection_qualified_name(field.rel))
    IN  IF field.rel \in known
        THEN [output |-> <<[kind |-> "REFERENCES", ref_table |-> qname,
                            ref_column |-> quote_name(RelColumn(field.rel))]>>,
              pending |-> FALSE]
        ELSE [output |-> << >>, pending |-> TRUE]

MySQL_inline_as_base(m, i, known) ==
    Base_sql_for_inline_foreign_key_references(m, i, known)

MySQL_sql_for_inline_foreign_key_references(m, i, known) ==
    [output |-> << >>, pending |-> TRUE]

Oracle_inline_as_base(m, i, known) ==
    Base_sql_for_inline_foreign_key_references(m, i, known)

Oracle_sql_for_inline_foreign_key_references(m, i, known) ==
    IF needs_separate_conn(connection_qualified_name(m),
           connection_qualified_name(models[m].local_fields[i].rel))
    THEN [output |-> << >>, pending |-> TRUE]
    ELSE Base_sql_for_inline_foreign_key_references(m, i, known)

sql_for_inline_foreign_key_references(m, i, known) ==
    CASE backend = "mysql" ->
            MySQL_sql_for_inline_foreign_key_references(m, i, known)
      [] backend = "oracle" ->
            Oracle_sql_for_inline_foreign_key_references(m, i, known)
      [] OTHER -> Base_sql_for_inline_foreign_key_references(m, i, known)

\* the names the eligibility call for field i of model m hands to the resolver
InlineResolverArgs(m, i) ==
    IF backend = "oracle"
    THEN needs_separate_conn_args(connection_qualified_name(m),
             connection_qualified_name(models[m].local_fields[i].rel))
    ELSE << >>

\* connection.ops.autoinc_sql: the sequence statement of a backend that has
\* no auto-increment column type
autoinc_sql(qname, column) ==
    IF backend = "oracle"
    THEN <<[BlankStmt EXCEPT !.kind = "CREATE SEQUENCE",
                             !.table = compose_qualified_name(qname),
                             !.column = column, !.model = qname.model]>>
    ELSE << >>

\* the (column definition, eligibility call) of local field i
FieldOutput(m, i, known) ==
    LET f == models[m].local_fields[i]
        null == IF f.empty_strings_allowed /\ ~f.primary_key
                   /\ interprets_empty_strings_as_nulls
                THEN TRUE ELSE f.null
        call == IF f.rel # 0
                THEN sql_for_inline_foreign_key_references(m, i, known)
                ELSE [output |-> << >>, pending |-> FALSE]
    IN  [column |-> quote_name(f.column), not_null |-> ~null,
         primary_key |-> f.primary_key,
         unique |-> ~f.primary_key /\ f.unique,
         references |-> IF call.pending THEN << >> ELSE call.output,
         field |-> i, rel |-> f.rel, pending |-> call.pending,
         ref_output |-> call.output]

RECURSIVE CreatePending(_, _, _)
CreatePending(m, table_output, i) ==
    IF i = 0 THEN EmptyMap
    ELSE LET p == CreatePending(m, table_output, i - 1)
         IN  IF table_output[i].rel # 0 /\ table_output[i].pending
             THEN MapAppend(p, table_output[i].rel, <<m, i>>)
             ELSE p

\* sql_create_model naming the table without its schema
sql_create_model_bare_table(m, known) ==
    IF ~models[m].managed \/ models[m].proxy
    THEN [output |-> << >>, pending_references |-> EmptyMap, calls |-> << >>]
    ELSE
    LET opts == models[m]
        qname == connection_qualified_name(m)
        table_output ==
            [i \in 1..Len(opts.local_fields) |-> FieldOutput(m, i, known)]
        full_statement ==
            [BlankStmt EXCEPT !.kind = "CREATE TABLE",
                              !.table = quote_name(qname.table),
                              !.columns = table_output, !.model = m]
        auto == IF opts.has_auto_field
                THEN autoinc_sql(qname, opts.auto_column) ELSE << >>
    IN  [output |-> <<full_statement>> \o auto,
         pending_references |->
             CreatePending(m, table_output, Len(table_output)),
         calls |-> SelectSeq(table_output, LAMBDA c : c.rel # 0)]

sql_create_model(m, known) ==
    IF ~models[m].managed \/ models[m].proxy
    THEN [output |-> << >>, pending_references |-> EmptyMap, calls |-> << >>]
    ELSE
    LET opts == models[m]
        qname == connection_qualified_name(m)
        table_output ==
            [i \in 1..Len(opts.local_fields) |-> FieldOutput(m, i, known)]
        full_statement ==
            [BlankStmt EXCEPT !.kind = "CREATE TABLE",
                              !.table = compose_qualified_name(qname),
                              !.columns = table_output, !.model = m]
        auto == IF opts.has_auto_field
                THEN autoinc_sql(qname, opts.auto_column) ELSE << >>
    IN  [output |-> <<full_statement>> \o auto,
         pending_references |->
             CreatePending(m, table_output, Len(table_output)),
         calls |-> SelectSeq(table_output, LAMBDA c : c.rel # 0)]

----------------------------------------------------------------------------
(* Constraint names, ALTER TABLE ... ADD CONSTRAINT and the drop path *)

\* r_name without the digest of the two table names
CreateRName_without_digest(model, rel_class, f) ==
    models[rel_class].local_fields[f].column \o s_refs \o RelColumn(model)

\* creation path: r_name of the reference (rel_class, field f) to model
CreateRName(model, rel_class, f) ==
    LET r_col == models[rel_class].local_fields[f].column
        r_table == models[rel_class].db_table
        table == models[model].db_table
        col == RelColumn(model)
    IN  r_col \o s_refs \o col \o s_us \o digest(<<r_table, table>>)

\* the base method returning at once, the map untouched
Base_sql_for_pending_references_leaves_map(model, pending) ==
    [output |-> << >>, pending_references |-> pending, raised |-> FALSE]

\* the base method keeping the key of the model in the map
Base_sql_for_pending_references_keeps_key(model, pending) ==
    [output |-> IF model \in DOMAIN pending
                THEN [j \in 1..Len(pending[model]) |->
                         [BlankStmt EXCEPT
                             !.kind = "ALTER TABLE ADD CONSTRAINT",
                             !.model = pending[model][j][1],
                             !.field = pending[model][j][2],
                             !.target = model]]
                ELSE << >>,
     pending_references |-> pending,
     raised |-> FALSE]

\* BaseDatabaseCreation.sql_for_pending_references
Base_sql_for_pending_references(model, pending) ==
    IF ~models[model].managed \/ models[model].proxy
    THEN [output |-> << >>,
          pending_references |->
              IF model \in DOMAIN pending THEN MapDel(pending, model)
              ELSE pending,
          raised |-> FALSE]
    ELSE
    LET qname == connection_qualified_name(model)
        Alter(ref) ==
            LET rel_class == ref[1]
                f == ref[2]
                r_col == models[rel_class].local_fields[f].column
            IN  [BlankStmt EXCEPT
                    !.kind = "ALTER TABLE ADD CONSTRAINT",
                    !.table = qualified_name_for_ref(qname,
                                  connection_qualified_name(rel_class)),
                    !.name = quote_name(truncate_name(
                                 CreateRName(model, rel_class, f),
                                 max_name_length)),
                    !.column = quote_name(r_col),
                    !.ref_table = compose_qualified_name(qname),
                    !.ref_column = quote_name(RelColumn(model)),
                    !.model = rel_class, !.field = f, !.target = model]
    IN  IF model \in DOMAIN pending
        THEN [output |-> [j \in 1..Len(pending[model]) |->
                             Alter(pending[model][j])],
              pending_references |-> MapDel(pending, model),
              raised |-> FALSE]
        ELSE [output |-> << >>, pending_references |-> pending,
              raised |-> FALSE]

\* Oracle: with second_pass the base method; without it the references are
\* split by needs_separate_conn, whose first argument is read from the
\* attribute self.connectino, which no object has: AttributeError on the
\* first entry
Oracle_sql_for_pending_references(model, pending, second_pass) ==
    IF second_pass THEN Base_sql_for_pending_references(model, pending)
    ELSE IF model \in DOMAIN pending /\ pending[model] # << >>
         THEN [output |-> << >>, pending_references |-> pending,
               raised |-> TRUE]
         ELSE [output |-> << >>, pending_references |-> pending,
               raised |-> FALSE]

sql_for_pending_references(model, pending) ==
    IF backend = "oracle"
    THEN Oracle_sql_for_pending_references(model, pending, FALSE)
    ELSE Base_sql_for_pending_references(model, pending)

\* drop path: the constraint name of the reference (rel_class, field f) to model
DropRName_swapped(model, rel_class, f) ==
    LET table == models[rel_class].db_table
        col == models[rel_class].local_fields[f].column
        r_table == models[model].db_table
        r_col == RelColumn(model)
    IN  col \o s_refs \o r_col \o s_us \o digest(<<r_table, table>>)

DropRName(model, rel_class, f) ==
    LET table == models[rel_class].db_table
        col == models[rel_class].local_fields[f].column
        r_table == models[model].db_table
        r_col == RelColumn(model)
    IN  col \o s_refs \o r_col \o s_us \o digest(<<table, r_table>>)

sql_remove_table_constraints(model, rtd) ==
    IF ~models[model].managed \/ models[model].proxy
    THEN [output |-> << >>, references_to_delete |-> rtd]
    ELSE
    LET Drop(ref) ==
            [BlankStmt EXCEPT
                !.kind = "ALTER TABLE DROP CONSTRAINT",
                !.table = compose_qualified_name(
                              connection_qualified_name(ref[1])),
                !.name = quote_name(truncate_name(
                             DropRName(model, ref[1], ref[2]),
                             max_name_length)),
                !.model = ref[1], !.field = ref[2], !.target = model]
    IN  [output |-> [j \in 1..Len(rtd[model]) |-> Drop(rtd[model][j])],
         references_to_delete |-> MapDel(rtd, model)]

\* connection.ops.drop_sequence_sql
drop_sequence_sql(table) ==
    IF backend = "oracle"
    THEN <<[BlankStmt EXCEPT !.kind = "DROP SEQUENCE", !.table = table]>>
    ELSE << >>

sql_destroy_model_constraints_first(model, rtd) ==
    IF ~models[model].managed \/ models[model].proxy
    THEN [output |-> << >>, references_to_delete |-> rtd]
    ELSE
    LET qname == connection_qualified_name(model)
        drop == <<[BlankStmt EXCEPT !.kind = "DROP TABLE",
                       !.table = compose_qualified_name(qname),
                       !.model = model]>>
        cons == IF model \in DOMAIN rtd
                THEN sql_remove_table_constraints(model, rtd)
                ELSE [output |-> << >>, references_to_delete |-> rtd]
        ds == IF models[model].has_auto_field
              THEN drop_sequence_sql(compose_qualified_name(qname))
              ELSE << >>
    IN  [output |-> cons.output \o drop \o ds,
         references_to_delete |-> cons.references_to_delete]

sql_destroy_model(model, rtd) ==
    IF ~models[model].managed \/ models[model].proxy
    THEN [output |-> << >>, references_to_delete |-> rtd]
    ELSE
    LET qname == connection_qualified_name(model)
        drop == <<[BlankStmt EXCEPT !.kind = "DROP TABLE",
                       !.table = compose_qualified_name(qname),
                       !.model = model]>>
        cons == IF model \in DOMAIN rtd
                THEN sql_remove_table_constraints(model, rtd)
                ELSE [output |-> << >>, references_to_delete |-> rtd]
        ds == IF models[model].has_auto_field
              THEN drop_sequence_sql(compose_qualified_name(qname))
              ELSE << >>
    IN  [output |-> drop \o cons.output \o ds,
         references_to_delete |-> cons.references_to_delete]

----------------------------------------------------------------------------
(* Oracle: the cross-schema coordinator *)

\* the positions <<key, index>> of the entries of a pending map
Entries(pending) ==
    UNION {{<<m, j>> : j \in DOMAIN pending[m]} : m \in DOMAIN pending}

\* the keys of references_to_schema
Schemas1(pending) == {OwnerSchema(m) : m \in DOMAIN pending}

\* the keys of references_from_schema
Schemas2(pending) ==
    {OwnerSchema(pending[e[1]][e[2]][1]) : e \in Entries(pending)}

\* grant_to without the test that leaves the owning schema out
GrantTo_with_self(pending, schema) ==
    {<<e[1], OwnerSchema(pending[e[1]][e[2]][1])>> : e \in
        {x \in Entries(pending) : OwnerSchema(x[1]) = schema}}

\* Pass 1: grant_to of one owning schema
GrantTo(pending, schema) ==
    {<<e[1], OwnerSchema(pending[e[1]][e[2]][1])>> : e \in
        {x \in Entries(pending) :
            /\ OwnerSchema(x[1]) = schema
            /\ OwnerSchema(pending[x[1]][x[2]][1]) # schema}}

\* references_from_schema keyed by the owner of the target
RefDict_by_target(pending, schema) ==
    [m \in {k \in DOMAIN pending : OwnerSchema(k) = schema} |-> pending[m]]

\* references_from_schema[schema]: a pending map of its own
RefDict(pending, schema) ==
    LET Mine(m) == SelectSeq(pending[m],
                             LAMBDA ref : OwnerSchema(ref[1]) = schema)
    IN  [m \in {k \in DOMAIN pending : Mine(k) # << >>} |-> Mine(m)]

\* the orders in which a dict or set of the given keys can be iterated
Orders(S) ==
    {o \in [1..Cardinality(S) -> S] :
        \A i, j \in 1..Cardinality(S) : i # j => o[i] # o[j]}

Comment_original_user(schema) ==
    [BlankStmt EXCEPT !.kind = "-- Connect as user", !.user = s_scott]

Comment(schema) == [BlankStmt EXCEPT !.kind = "-- Connect as user",
                                     !.user = schema]

\* the statement list of _grant_references, grant_to iterated in order
GrantSql(order, with_comment, schema) ==
    (IF with_comment THEN <<Comment(schema)>> ELSE << >>)
    \o [j \in 1..Len(order) |->
           [BlankStmt EXCEPT !.kind = "GRANT REFERENCES",
                !.table = quote_name(models[order[j][1]].db_table),
                !.user = quote_name(order[j][2]),
                !.target = order[j][1]]]

\* Pass 2: the statements of one source schema, ref_dict iterated in order
RECURSIVE PerSchemaSql(_, _)
PerSchemaSql(ref_dict, order) ==
    IF order = << >> THEN << >>
    ELSE LET r == Oracle_sql_for_pending_references(Head(order), ref_dict, TRUE)
         IN  r.output \o PerSchemaSql(r.pending_references, Tail(order))

\* _run_sql_as_user on entry: close, keep the old settings, switch the user
RunEnter(user, sql, ret) ==
    [user |-> user, sql |-> sql, queue |-> sql, ret |-> ret,
     old_settings |-> settings_dict, open_before |-> conn_open]

NoRun == [user |-> << >>, sql |-> << >>, queue |-> << >>, ret |-> "",
          old_settings |-> << >>, open_before |-> FALSE]

NoLast == [called |-> FALSE, user |-> << >>, sql |-> << >>,
           settings_before |-> << >>, open_before |-> FALSE,
           settings_after |-> << >>, open_after |-> FALSE, raised |-> FALSE]

\* settings_dict['USER'] = user
SwappedSettings_not_swapped(settings, user) == settings

SwappedSettings(settings, user) == [settings EXCEPT !.USER = user]

\* the settings the finally clause leaves behind
RestoredSettings_kept_swapped(old_settings, current) == current

RestoredSettings(old_settings, current) == old_settings

----------------------------------------------------------------------------
(* The batch: its models and the initial state *)

DefaultUser == s_scott

TableOf(m) == IF m = 3 THEN s_bar ELSE s_sn

\* the column of a foreign key to model t
ColumnFor(t) ==
    IF t = 3 THEN s_long
    ELSE <<"f", "k", HexDigits[t + 1], "_", "i", "d">>

PkField ==
    [column |-> s_id, rel |-> 0, primary_key |-> TRUE, unique |-> TRUE,
     db_index |-> FALSE, null |-> FALSE, empty_strings_allowed |-> FALSE]

FkField(t) ==
    [column |-> ColumnFor(t), rel |-> t, primary_key |-> FALSE,
     unique |-> FALSE, db_index |-> TRUE, null |-> FALSE,
     empty_strings_allowed |-> FALSE]

RECURSIVE FkFields(_, _, _)
FkFields(m, edges, t) ==
    IF t = 0 THEN << >>
    ELSE FkFields(m, edges, t - 1)
         \o (IF <<m, t>> \in edges THEN <<FkField(t)>> ELSE << >>)

LastModel == Cardinality(ModelIds)

ModelMeta(m, schemas, edges) ==
    [db_table |-> TableOf(m), db_schema |-> schemas[m], managed |-> TRUE,
     proxy |-> FALSE, has_auto_field |-> m # 3, auto_column |-> s_id,
     local_fields |-> <<PkField>> \o FkFields(m, edges, LastModel)]

\* the foreign-key fields of the batch, as <<model, field index>>
FKFields ==
    UNION {{<<m, i>> : i \in {j \in DOMAIN models[m].local_fields :
                                models[m].local_fields[j].rel # 0}} :
           m \in ModelIds}

RECURSIVE RefsTo(_, _, _)
RefsTo(ms, t, m) ==
    IF m = 0 THEN << >>
    ELSE RefsTo(ms, t, m - 1)
         \o [j \in 1..Len(SelectSeq(ms[m].local_fields,
                                    LAMBDA f : f.rel = t)) |->
                <<m, CHOOSE i \in DOMAIN ms[m].local_fields :
                         ms[m].local_fields[i].rel = t>>]

\* references_to_delete as the caller of the drop path collects it
AllReferences(ms) ==
    [t \in {x \in ModelIds : RefsTo(ms, x, LastModel) # << >>} |->
        RefsTo(ms, t, LastModel)]

NoCreate == [model |-> 0, known |-> {}, output |-> << >>,
             pending_references |-> EmptyMap, calls |-> << >>,
             resolver_args |-> {}]

NoDestroy == [model |-> 0, had_references |-> FALSE, output |-> << >>,
              before |-> EmptyMap, after |-> EmptyMap]

\* no naming function has been called
NoCompare == [called |-> FALSE, eq |-> FALSE, hash_eq |-> FALSE,
              resolved_eq |-> FALSE, forced_eq |-> FALSE,
              composed_eq |-> FALSE]

NoQualified == [called |-> FALSE, router_none |-> FALSE, schema |-> << >>,
                model |-> 0, result |-> << >>]

NoSeparate == [called |-> FALSE, result |-> FALSE]

NamesIdle ==
    /\ qname_in = QName(None, s_sn, FALSE, 0)
    /\ other_in = QName(None, s_sn, FALSE, 0)
    /\ resolved = << >>
    /\ compared = NoCompare
    /\ qualified = NoQualified
    /\ separate = NoSeparate

\* a backend whose introspection implements every call
AllImplemented ==
    [table_names |-> TRUE, get_relations |-> TRUE, get_indexes |-> TRUE,
     get_table_description |-> TRUE]

\* no provisioning of a test database
NoProvisioning ==
    [namespaced_schemas |-> FALSE, autoclobber |-> FALSE, confirm |-> "no",
     schemas |-> << >>, server |-> << >>, calls |-> << >>, unchecked |-> {},
     status |-> 0, created_schemas |-> << >>,
     parameters |-> [user |-> None, password |-> None, tblspace |-> None,
                     tblspace_temp |-> None],
     group |-> "", statements |-> << >>, call |-> 0,
     old_settings |-> [USER |-> None, PASSWORD |-> None]]

\* no inspectdb run, no provisioning
InspectIdle ==
    /\ insp_tables = << >>
    /\ insp_filter = [kind |-> "none", accepts |-> ""]
    /\ insp_pos = 1
    /\ insp_lines = << >>
    /\ insp_known = << >>
    /\ insp_reads = << >>
    /\ insp_impl = AllImplemented
    /\ prov = NoProvisioning

\* the state of the caller before the first model of a batch
BatchStart ==
    /\ pc = "create"
    /\ next_model = 1
    /\ known_models = {}
    /\ pending_references = EmptyMap
    /\ output = << >>
    /\ last_create = NoCreate
    /\ as_sql = FALSE
    /\ todo1 = {}
    /\ todo2 = {}
    /\ post_sql = << >>
    /\ listing = << >>
    /\ run = NoRun
    /\ last_run = NoLast
    /\ executed = << >>
    /\ error = ""
    /\ references_to_delete = AllReferences(models)
    /\ drop_output = << >>
    /\ last_destroy = NoDestroy
    /\ indexed = << >>

Init ==
    /\ backend \in {"postgresql", "mysql", "oracle"}
    /\ settings_dict \in {[USER |-> DefaultUser, NAME |-> s_db, SCHEMA |-> s] :
                             s \in {None, s_schema1}}
    /\ \E schemas \in [ModelIds -> {None, s_schema1, s_schema2}] :
       \E edges \in SUBSET (ModelIds \X ModelIds) :
          /\ Cardinality(edges) <= MaxFKs
          /\ convert_schema(schemas[1]) # convert_schema(schemas[2])
          /\ models = [m \in ModelIds |-> ModelMeta(m, schemas, edges)]
    /\ conn_open \in (IF backend = "oracle" THEN BOOLEAN ELSE {FALSE})
    /\ BatchStart
    /\ NamesIdle
    /\ InspectIdle

----------------------------------------------------------------------------
(* Creating the batch: for each model in turn sql_create_model, the merge   *)
(* into the batch map, known_models and sql_for_pending_references          *)

CreateModel ==
    /\ pc = "create"
    /\ LET m == next_model
           c == sql_create_model(m, known_models)
           merged == MapMerge(pending_references, c.pending_references)
           p == sql_for_pending_references(m, merged)
       IN  /\ last_create' = [model |-> m, known |-> known_models,
                              output |-> c.output,
                              pending_references |-> c.pending_references,
                              calls |-> c.calls,
                              resolver_args |->
                                  UNION {Range(InlineResolverArgs(m, x.field)) :
                                         x \in Range(c.calls)}]
           /\ known_models' = known_models \cup {m}
           /\ pending_references' = p.pending_references
           /\ output' = output \o c.output \o p.output
           /\ IF p.raised
              THEN /\ error' = "AttributeError"
                   /\ pc' = "raised"
                   /\ next_model' = m
              ELSE /\ error' = error
                   /\ pc' = IF m < LastModel THEN "create"
                            ELSE IF backend = "oracle" THEN "post" ELSE "done"
                   /\ next_model' = IF m < LastModel THEN m + 1 ELSE m
    /\ UNCHANGED <<backend, models, settings_dict, conn_open, as_sql, todo1,
                   todo2, post_sql, run, last_run, executed,
                   references_to_delete, drop_output, last_destroy>>
    /\ UNCHANGED <<listing, unit_vars>>

----------------------------------------------------------------------------
(* Oracle: post_create_pending_references *)

PostBegin ==
    /\ pc = "post"
    /\ as_sql' \in BOOLEAN
    /\ todo1' = Schemas1(pending_references)
    /\ todo2' = Schemas2(pending_references)
    /\ pc' = "pass1"
    /\ UNCHANGED <<backend, models, settings_dict, conn_open, next_model,
                   known_models, pending_references, output, last_create,
                   post_sql, run, last_run, executed, error,
                   references_to_delete, drop_output, last_destroy>>
    /\ UNCHANGED <<listing, unit_vars>>

\* the list handed to _run_sql_as_user whatever as_sql says
Emit_runs_the_listing(user, sql, ret) ==
    IF sql = << >>
    THEN /\ post_sql' = post_sql
         /\ pc' = ret
         /\ last_run' = [called |-> TRUE, user |-> user, sql |-> sql,
                         settings_before |-> settings_dict,
                         open_before |-> conn_open,
                         settings_after |-> settings_dict,
                         open_after |-> conn_open, raised |-> FALSE]
         /\ UNCHANGED <<settings_dict, conn_open, run>>
    ELSE /\ run' = RunEnter(user, sql, ret)
         /\ conn_open' = FALSE
         /\ settings_dict' = SwappedSettings(settings_dict, user)
         /\ pc' = "cursor"
         /\ UNCHANGED <<post_sql, last_run>>

\* the list is only built (as_sql), or handed to _run_sql_as_user, which
\* returns at once when it is empty and otherwise closes the connection and
\* switches the user
Emit(user, sql, ret) ==
    IF as_sql
    THEN /\ post_sql' = post_sql \o sql
         /\ pc' = ret
         /\ UNCHANGED <<settings_dict, conn_open, run, last_run>>
    ELSE IF sql = << >>
    THEN /\ post_sql' = post_sql
         /\ pc' = ret
         /\ last_run' = [called |-> TRUE, user |-> user, sql |-> sql,
                         settings_before |-> settings_dict,
                         open_before |-> conn_open,
                         settings_after |-> settings_dict,
                         open_after |-> conn_open, raised |-> FALSE]
         /\ UNCHANGED <<settings_dict, conn_open, run>>
    ELSE /\ run' = RunEnter(user, sql, ret)
         /\ conn_open' = FALSE
         /\ settings_dict' = SwappedSettings(settings_dict, user)
         /\ pc' = "cursor"
         /\ UNCHANGED <<post_sql, last_run>>

GrantStep ==
    /\ pc = "pass1"
    /\ \E schema \in todo1 :
       \E order \in Orders(GrantTo(pending_references, schema)) :
          /\ todo1' = todo1 \ {schema}
          /\ listing' = listing \o GrantSql(order, TRUE, schema)
          /\ Emit(schema, GrantSql(order, as_sql, schema), "pass1")
    /\ UNCHANGED <<backend, models, next_model, known_models,
                   pending_references, output, last_create, as_sql, todo2,
                   executed, error, references_to_delete, drop_output,
                   last_destroy>>
    /\ UNCHANGED unit_vars

Pass1Done ==
    /\ pc = "pass1"
    /\ todo1 = {}
    /\ pc' = "pass2"
    /\ UNCHANGED <<backend, models, settings_dict, conn_open, next_model,
                   known_models, pending_references, output, last_create,
                   as_sql, todo1, todo2, post_sql, run, last_run, executed,
                   error, references_to_delete, drop_output, last_destroy>>
    /\ UNCHANGED <<listing, unit_vars>>

AlterStep ==
    /\ pc = "pass2"
    /\ \E schema \in todo2 :
       LET ref_dict == RefDict(pending_references, schema)
       IN  \E order \in Orders(DOMAIN ref_dict) :
              /\ todo2' = todo2 \ {schema}
              /\ listing' = listing \o <<Comment(schema)>>
                                   \o PerSchemaSql(ref_dict, order)
              /\ Emit(schema,
                      (IF as_sql THEN <<Comment(schema)>> ELSE << >>)
                      \o PerSchemaSql(ref_dict, order), "pass2")
    /\ UNCHANGED <<backend, models, next_model, known_models,
                   pending_references, output, last_create, as_sql, todo1,
                   executed, error, references_to_delete, drop_output,
                   last_destroy>>
    /\ UNCHANGED unit_vars

Pass2Done ==
    /\ pc = "pass2"
    /\ todo2 = {}
    /\ pc' = "done"
    /\ UNCHANGED <<backend, models, settings_dict, conn_open, next_model,
                   known_models, pending_references, output, last_create,
                   as_sql, todo1, todo2, post_sql, run, last_run, executed,
                   error, references_to_delete, drop_output, last_destroy>>
    /\ UNCHANGED <<listing, unit_vars>>

----------------------------------------------------------------------------
(* Oracle: _run_sql_as_user, from cursor() to the finally clause *)

RunCursor ==
    /\ pc = "cursor"
    /\ conn_open' = TRUE
    /\ pc' = "execute"
    /\ UNCHANGED <<backend, models, settings_dict, next_model, known_models,
                   pending_references, output, last_create, as_sql, todo1,
                   todo2, post_sql, run, last_run, executed, error,
                   references_to_delete, drop_output, last_destroy>>
    /\ UNCHANGED <<listing, unit_vars>>

RunCursorFails ==
    /\ pc = "cursor"
    /\ error' = "DatabaseError"
    /\ pc' = "finally"
    /\ UNCHANGED <<backend, models, settings_dict, conn_open, next_model,
                   known_models, pending_references, output, last_create,
                   as_sql, todo1, todo2, post_sql, run, last_run, executed,
                   references_to_delete, drop_output, last_destroy>>
    /\ UNCHANGED <<listing, unit_vars>>

RunExecute ==
    /\ pc = "execute"
    /\ executed' = Append(executed, [user |-> settings_dict.USER,
                                     sql |-> Head(run.queue)])
    /\ run' = [run EXCEPT !.queue = Tail(@)]
    /\ pc' = IF Tail(run.queue) = << >> THEN "finally" ELSE "execute"
    /\ UNCHANGED <<backend, models, settings_dict, conn_open, next_model,
                   known_models, pending_references, output, last_create,
                   as_sql, todo1, todo2, post_sql, last_run, error,
                   references_to_delete, drop_output, last_destroy>>
    /\ UNCHANGED <<listing, unit_vars>>

RunExecuteFails ==
    /\ pc = "execute"
    /\ error' = "DatabaseError"
    /\ pc' = "finally"
    /\ UNCHANGED <<backend, models, settings_dict, conn_open, next_model,
                   known_models, pending_references, output, last_create,
                   as_sql, todo1, todo2, post_sql, run, last_run, executed,
                   references_to_delete, drop_output, last_destroy>>
    /\ UNCHANGED <<listing, unit_vars>>

RunFinally ==
    /\ pc = "finally"
    /\ conn_open' = FALSE
    /\ settings_dict' = RestoredSettings(run.old_settings, settings_dict)
    /\ last_run' = [called |-> TRUE, user |-> run.user, sql |-> run.sql,
                    settings_before |-> run.old_settings,
                    open_before |-> run.open_before,
                    settings_after |-> settings_dict',
                    open_after |-> conn_open', raised |-> error # ""]
    /\ run' = NoRun
    /\ IF error # ""
       THEN pc' = "raised" /\ post_sql' = post_sql
       ELSE pc' = run.ret /\ post_sql' = post_sql \o run.sql
    /\ UNCHANGED <<backend, models, next_model, known_models,
                   pending_references, output, last_create, as_sql, todo1,
                   todo2, executed, error, references_to_delete, drop_output,
                   last_destroy>>
    /\ UNCHANGED <<listing, unit_vars>>

----------------------------------------------------------------------------
(* The drop path: sql_destroy_model for each model, last created first *)

DestroyModel ==
    /\ pc \in {"done", "destroy"}
    /\ LET m == next_model
           d == sql_destroy_model(m, references_to_delete)
       IN  /\ last_destroy' = [model |-> m,
                               had_references |-> m \in DOMAIN references_to_delete,
                               output |-> d.output,
                               before |-> references_to_delete,
                               after |-> d.references_to_delete]
           /\ drop_output' = drop_output \o d.output
           /\ references_to_delete' = d.references_to_delete
           /\ next_model' = IF m > 1 THEN m - 1 ELSE m
           /\ pc' = IF m > 1 THEN "destroy" ELSE "destroyed"
    /\ UNCHANGED <<backend, models, settings_dict, conn_open, known_models,
                   pending_references, output, last_create, as_sql, todo1,
                   todo2, post_sql, run, last_run, executed, error>>
    /\ UNCHANGED <<listing, unit_vars>>

Next ==
    \/ CreateModel
    \/ PostBegin
    \/ GrantStep
    \/ Pass1Done
    \/ AlterStep
    \/ Pass2Done
    \/ RunCursor
    \/ RunCursorFails
    \/ RunExecute
    \/ RunExecuteFails
    \/ RunFinally
    \/ DestroyModel

Spec == Init /\ [][Next]_vars

----------------------------------------------------------------------------
(* The index pass: sql_indexes_for_model *)

\* the QName of an index with a name that is not truncated
index_qname_untruncated(model, col) ==
    LET i_name == models[model].db_table \o s_us \o digest(<<col>>)
        qn == connection_qualified_name(model)
    IN  QName(qn.schema, i_name, FALSE, model)

\* the QName qualified_index_name builds for the index of column col
index_qname(model, col) ==
    LET i_name == truncate_name(
                      models[model].db_table \o s_us \o digest(<<col>>),
                      max_name_length)
        qn == connection_qualified_name(model)
    IN  QName(qn.schema, i_name, FALSE, model)

\* the index name of column col, in the schema of the model's table
Base_qualified_index_name(model, col) ==
    compose_qualified_name(index_qname(model, col))

\* the schema prefix put in front of a name that is already truncated
MySQL_qualified_index_name_prefix_last(model, col) ==
    LET schema == IF models[model].db_schema # None
                  THEN models[model].db_schema ELSE settings_dict.SCHEMA
        max_len == max_name_length
        schema_prefix ==
            IF schema # None
            THEN truncate_name(convert_schema(schema), max_len \div 2) \o s_us
            ELSE << >>
    IN  quote_name(schema_prefix \o truncate_name(
            models[model].db_table \o s_us \o digest(<<col>>), max_len))

\* MySQL: no qualified index names; the schema becomes a prefix of the name
MySQL_qualified_index_name(model, col) ==
    LET schema == IF models[model].db_schema # None
                  THEN models[model].db_schema ELSE settings_dict.SCHEMA
        max_len == max_name_length
        schema_prefix ==
            IF schema # None
            THEN truncate_name(convert_schema(schema), max_len \div 2) \o s_us
            ELSE << >>
    IN  quote_name(truncate_name(
            schema_prefix \o models[model].db_table \o s_us \o digest(<<col>>),
            max_len))

qualified_index_name(model, col) ==
    IF backend = "mysql" THEN MySQL_qualified_index_name(model, col)
    ELSE Base_qualified_index_name(model, col)

sql_indexes_for_field_unique_too(model, i) ==
    LET f == models[model].local_fields[i]
    IN  IF f.db_index
        THEN <<[BlankStmt EXCEPT
                   !.kind = "CREATE INDEX",
                   !.name = qualified_index_name(model, f.column),
                   !.table = compose_qualified_name(
                                 connection_qualified_name(model)),
                   !.column = quote_name(f.column),
                   !.model = model, !.field = i]>>
        ELSE << >>

sql_indexes_for_field(model, i) ==
    LET f == models[model].local_fields[i]
    IN  IF f.db_index /\ ~f.unique
        THEN <<[BlankStmt EXCEPT
                   !.kind = "CREATE INDEX",
                   !.name = qualified_index_name(model, f.column),
                   !.table = compose_qualified_name(
                                 connection_qualified_name(model)),
                   !.column = quote_name(f.column),
                   !.model = model, !.field = i]>>
        ELSE << >>

RECURSIVE IndexesUpTo(_, _)
IndexesUpTo(model, i) ==
    IF i = 0 THEN << >>
    ELSE IndexesUpTo(model, i - 1) \o sql_indexes_for_field(model, i)

sql_indexes_for_model_unmanaged_too(model) ==
    IndexesUpTo(model, Len(models[model].local_fields))

sql_indexes_for_model(model) ==
    IF ~models[model].managed \/ models[model].proxy THEN << >>
    ELSE IndexesUpTo(model, Len(models[model].local_fields))

\* the QNames sql_indexes_for_model constructs for the names of its indexes
IndexQNames(model) ==
    IF backend = "mysql" THEN {}
    ELSE {index_qname(model, models[model].local_fields[st.field].column) :
             st \in Range(sql_indexes_for_model(model))}

\* the caller's index pass, after the tables: one model at a time, in order
IndexesForModel ==
    /\ pc = "done"
    /\ Len(indexed) < LastModel
    /\ LET m == Len(indexed) + 1
       IN  indexed' = Append(indexed, [model |-> m,
                                       output |-> sql_indexes_for_model(m),
                                       qnames |-> IndexQNames(m),
                                       again |-> sql_indexes_for_model(m)])
    /\ UNCHANGED <<backend, models, settings_dict, conn_open, pc, next_model,
                   known_models, pending_references, output, last_create,
                   as_sql, todo1, todo2, post_sql, run, last_run, executed,
                   error, references_to_delete, drop_output, last_destroy,
                   listing, qname_in, other_in, resolved, compared, qualified,
                   separate, insp_vars, prov>>

----------------------------------------------------------------------------
(* Batches with unmanaged and proxy models, and indexed and unique fields *)

\* a field that is no key: column c<n>, with its db_index and unique flags
PlainField(n, flags) ==
    [column |-> <<"c", HexDigits[n + 1]>>, rel |-> 0, primary_key |-> FALSE,
     unique |-> flags[2], db_index |-> flags[1], null |-> FALSE,
     empty_strings_allowed |-> TRUE]

\* the <<db_index, unique>> flags of the two plain fields of every model
FlagPatterns ==
    {<<<<TRUE, FALSE>>, <<TRUE, TRUE>>>>, <<<<FALSE, FALSE>>, <<TRUE, FALSE>>>>,
     <<<<TRUE, TRUE>>, <<FALSE, FALSE>>>>, <<<<TRUE, FALSE>>, <<TRUE, FALSE>>>>}

\* managed, unmanaged (Meta.managed = False) or proxy (Meta.proxy = True)
ModelKinds ==
    {k \in [ModelIds -> {"managed", "unmanaged", "proxy"}] :
        Cardinality({m \in ModelIds : k[m] # "managed"}) <= 1}

\* a table name and a schema name near the identifier limits
s_long_table == Rep("t", 60)
s_long_schema == Rep("s", 40)

FlaggedMeta(m, kinds, edges, pattern) ==
    [db_table |-> IF m = 3 THEN s_long_table ELSE TableOf(m),
     db_schema |-> CASE m = 2 -> s_schema2
                     [] m = 3 -> s_long_schema
                     [] OTHER -> None,
     managed |-> kinds[m] # "unmanaged", proxy |-> kinds[m] = "proxy",
     has_auto_field |-> m # 3, auto_column |-> s_id,
     local_fields |->
         <<PkField, PlainField(1, pattern[1]), PlainField(2, pattern[2])>>
         \o FkFields(m, edges, LastModel)]

\* the foreign keys a batch can declare: between models 1 and 2 and
\* between models 2 and 3, in both directions, and from model 1 to model 3
FlaggedEdges == {<<1, 2>>, <<2, 1>>, <<2, 3>>, <<3, 2>>, <<1, 3>>}

FlaggedInit ==
    /\ backend \in {"postgresql", "mysql", "oracle"}
    /\ settings_dict = [USER |-> DefaultUser, NAME |-> s_db, SCHEMA |-> None]
    /\ \E kinds \in ModelKinds :
       \E edges \in SUBSET FlaggedEdges :
       \E pattern \in FlagPatterns :
          /\ Cardinality(edges) <= MaxFKs
          /\ models = [m \in ModelIds |->
                          FlaggedMeta(m, kinds, edges, pattern)]
    /\ conn_open \in (IF backend = "oracle" THEN BOOLEAN ELSE {FALSE})
    /\ BatchStart
    /\ NamesIdle
    /\ InspectIdle

FlaggedNext ==
    \/ Next
    \/ IndexesForModel

FlaggedSpec == FlaggedInit /\ [][FlaggedNext]_vars
----------------------------------------------------------------------------
(* QName and the naming functions, called on their own *)

s_SCOTT == <<"S", "C", "O", "T", "T">>
s_foo == <<"f", "o", "o">>
s_foo_bar == <<"f", "o", "o", "_", "b", "a", "r">>

\* str.lower() of one character
LowerChar(c) ==
    LET i == Code(c)
    IN  IF i >= 27 /\ i <= 52 THEN Alphabet[i - 26] ELSE c

\* Oracle: identifier_converter, name.lower()
identifier_converter(name) == [i \in DOMAIN name |-> LowerChar(name[i])]

\* the tuple a QName is: the model is an attribute next to it
QNameTuple(qname) == <<qname.schema, qname.table, qname.db_format>>

QNameEq_with_model(a, b) == a = b

\* tuple.__eq__, inherited by QName
QNameEq(a, b) == QNameTuple(a) = QNameTuple(b)

\* tuple.__hash__, inherited by QName: a function of the tuple
QNameHash(qname) == digest(<<QNameTuple(qname)[1], QNameTuple(qname)[2]>>)
                        \o (IF QNameTuple(qname)[3] THEN <<"1">> ELSE <<"0">>)

\* django.db.qualified_name: meta_qname is model._meta.qualified_name and
\* router what router.schema_for_db returns (none: it returned None)
qualified_name(meta_qname, model, router) ==
    IF ~router.none
    THEN QName(router.schema, meta_qname.table, meta_qname.db_format, model)
    ELSE meta_qname

\* connection.introspection.qname_converter of the backend in use
qname_converter(qname, force_schema) ==
    CASE backend = "mysql" -> MySQL_qname_converter(qname, force_schema)
      [] backend = "oracle" -> Oracle_qname_converter(qname, force_schema)
      [] OTHER -> PostgreSQL_qname_converter(qname, force_schema)

\* what router.schema_for_db can return: None, '' or a schema
RouterSchemas ==
    {[none |-> TRUE, schema |-> None], [none |-> FALSE, schema |-> None],
     [none |-> FALSE, schema |-> s_schema1]}

\* the connections the naming functions are called on
NameSettings ==
    {<<"mysql", [USER |-> DefaultUser, NAME |-> n, SCHEMA |-> s]>> :
        n \in {s_db, None}, s \in {None, s_schema1, s_foo}}
    \cup {<<"oracle", [USER |-> u, NAME |-> s_db, SCHEMA |-> s]>> :
        u \in {s_scott, s_SCOTT, None}, s \in {None, s_schema1, s_foo}}
    \cup {<<"postgresql", [USER |-> DefaultUser, NAME |-> s_db, SCHEMA |-> s]>> :
        s \in {None, s_schema1, s_foo}}

\* everything but the caller's position and the naming variables
creation_vars == <<backend, models, settings_dict, conn_open, next_model,
                   known_models, pending_references, output, last_create,
                   as_sql, todo1, todo2, post_sql, run, last_run, executed,
                   error, references_to_delete, drop_output, last_destroy,
                   listing, indexed>>

NameInit ==
    /\ \E c \in NameSettings : backend = c[1] /\ settings_dict = c[2]
    /\ models = [m \in ModelIds |->
                    ModelMeta(m, [x \in ModelIds |-> None], {})]
    /\ conn_open = FALSE
    /\ pc = "names"
    /\ next_model = 1
    /\ known_models = {}
    /\ pending_references = EmptyMap
    /\ output = << >>
    /\ last_create = NoCreate
    /\ as_sql = FALSE
    /\ todo1 = {}
    /\ todo2 = {}
    /\ post_sql = << >>
    /\ listing = << >>
    /\ run = NoRun
    /\ last_run = NoLast
    /\ executed = << >>
    /\ error = ""
    /\ references_to_delete = AllReferences(models)
    /\ drop_output = << >>
    /\ last_destroy = NoDestroy
    /\ indexed = << >>
    /\ qname_in \in {QName(s, t, f, 1) :
                        s \in {None, s_schema1, s_scott, s_SCOTT},
                        t \in {s_sn, s_bar}, f \in BOOLEAN}
    /\ other_in \in {QName(s, t, f, m) :
                        s \in {None, s_scott, s_SCOTT},
                        t \in {s_sn, s_foo_bar}, f \in BOOLEAN, m \in {0, 2}}
    /\ resolved = << >>
    /\ compared = NoCompare
    /\ qualified = NoQualified
    /\ separate = NoSeparate
    /\ InspectIdle

\* conv(qname_in, force_schema)
Convert ==
    /\ pc = "names"
    /\ \E force_schema \in BOOLEAN :
          resolved' = <<[arg |-> qname_in, force_schema |-> force_schema,
                         result |-> qname_converter(qname_in, force_schema)]>>
    /\ pc' = "again"
    /\ UNCHANGED <<creation_vars, insp_vars, prov, qname_in, other_in, compared, qualified,
                   separate>>

\* conv(conv(qname_in, ...), force_schema): the result is resolved again
ConvertAgain ==
    /\ pc = "again"
    /\ \E force_schema \in BOOLEAN :
          resolved' = Append(resolved,
              [arg |-> resolved[1].result, force_schema |-> force_schema,
               result |-> qname_converter(resolved[1].result, force_schema)])
    /\ pc' = "forced"
    /\ UNCHANGED <<creation_vars, insp_vars, prov, qname_in, other_in, compared, qualified,
                   separate>>

\* conv(qname_in, force_schema=True)
ConvertForced ==
    /\ pc = "forced"
    /\ resolved' = Append(resolved,
           [arg |-> qname_in, force_schema |-> TRUE,
            result |-> qname_converter(qname_in, TRUE)])
    /\ pc' = "named"
    /\ UNCHANGED <<creation_vars, insp_vars, prov, qname_in, other_in, compared, qualified,
                   separate>>

\* qname_in == other_in and hash(qname_in) == hash(other_in), and the same
\* comparison of the two names resolved and composed
Compare ==
    /\ pc = "names"
    /\ compared' =
          [called |-> TRUE, eq |-> QNameEq(qname_in, other_in),
           hash_eq |-> QNameHash(qname_in) = QNameHash(other_in),
           resolved_eq |-> QNameEq(qname_converter(qname_in, FALSE),
                                   qname_converter(other_in, FALSE)),
           forced_eq |-> QNameEq(qname_converter(qname_in, TRUE),
                                 qname_converter(other_in, TRUE)),
           composed_eq |->
               compose_qualified_name(qname_converter(qname_in, FALSE))
               = compose_qualified_name(qname_converter(other_in, FALSE))]
    /\ pc' = "compared"
    /\ UNCHANGED <<creation_vars, insp_vars, prov, qname_in, other_in, resolved, qualified,
                   separate>>

\* qualified_name(model) for a model whose _meta.qualified_name is qname_in
QualifiedName ==
    /\ pc \in {"names", "compared"}
    /\ \E router \in RouterSchemas :
          qualified' = [called |-> TRUE, router_none |-> router.none,
                        schema |-> router.schema, model |-> 3,
                        result |-> qualified_name(qname_in, 3, router)]
    /\ pc' = "named"
    /\ UNCHANGED <<creation_vars, insp_vars, prov, qname_in, other_in, resolved, compared,
                   separate>>

\* Oracle: needs_separate_conn(qname_in, other_in)
NeedsSeparateConn ==
    /\ pc = "names"
    /\ backend = "oracle"
    /\ separate' = [called |-> TRUE,
                    result |-> needs_separate_conn(qname_in, other_in)]
    /\ pc' = "named"
    /\ UNCHANGED <<creation_vars, insp_vars, prov, qname_in, other_in, resolved, compared,
                   qualified>>

NameNext ==
    \/ Convert
    \/ ConvertAgain
    \/ ConvertForced
    \/ Compare
    \/ QualifiedName
    \/ NeedsSeparateConn

NameSpec == NameInit /\ [][NameNext]_vars
----------------------------------------------------------------------------
(* inspectdb: Command.handle_inspection, one table of table_names per step *)

s_name == <<"n", "a", "m", "e">>
s_ref_id == <<"r", "e", "f", "_", "i", "d">>
s_from_id == <<"f", "r", "o", "m", "_", "i", "d">>
s_from == <<"f", "r", "o", "m">>
s__id == <<"_", "i", "d">>
s__field == <<"_", "f", "i", "e", "l", "d">>
s_apos == <<"'">>
s_self == <<"'", "s", "e", "l", "f", "'">>
s_ForeignKey == <<"F", "o", "r", "e", "i", "g", "n", "K", "e", "y", "(">>
s_AutoField == <<"A", "u", "t", "o", "F", "i", "e", "l", "d">>
s_CharField == <<"C", "h", "a", "r", "F", "i", "e", "l", "d">>
s_paren == <<"(">>

\* str.upper() of one character
UpperChar(c) ==
    LET i == Code(c)
    IN  IF i <= 26 THEN Alphabet[i + 26] ELSE c

\* whether str.title() treats the character as a letter
IsCased(c) == Code(c) <= 52

\* str.title(): a letter that follows a letter is lowered, any other letter
\* is raised
Title(name) ==
    [i \in DOMAIN name |->
        IF i > 1 /\ IsCased(name[i - 1])
        THEN LowerChar(name[i])
        ELSE UpperChar(name[i])]

\* the class name of a table: the schema of the qname takes no part in it
table2model(qname) ==
    SelectSeq(Title(qname.table), LAMBDA c : c \notin {"_", " ", "-"})

\* str.endswith
EndsWithStr(name, suffix) ==
    /\ Len(name) >= Len(suffix)
    /\ SubSeq(name, Len(name) - Len(suffix) + 1, Len(name)) = suffix

\* keyword.iskeyword, on the names of the universe
iskeyword(name) == name \in {s_from}

\* what a callable qname_filter answers for a table
FilterAccepts(f, qname) ==
    CASE f.accepts = "table_sn" -> qname.table = s_sn
      [] f.accepts = "schema1" -> qname.schema = s_schema1
      [] OTHER -> TRUE

\* a filter that is consulted and ignored
Rejected_never(f, qname) == FALSE

\* lines 50-52: the table is passed over
Rejected(f, qname) ==
    /\ f.kind = "callable"
    /\ ~FilterAccepts(f, qname)

\* introspection.get_relations: column index -> referenced table
inspect_get_relations(tables, t) ==
    IF tables[t].fk = 0 THEN << >>
    ELSE [i \in {3} |-> tables[tables[t].fk].qname]

\* introspection.get_table_description: rows of (name, type)
inspect_get_table_description(tables, t) ==
    <<[name |-> s_id, type |-> s_AutoField],
      [name |-> s_name, type |-> s_CharField]>>
    \o (IF tables[t].fk = 0 THEN << >>
        ELSE <<[name |-> tables[t].fk_column, type |-> s_CharField]>>)

\* introspection.get_indexes: the columns that are primary keys
inspect_get_indexes(tables, t) == {s_id}

\* lines 94-98: the field type of a relation column
RelFieldType(qname, target, known) ==
    LET rel_to == IF target = qname THEN s_self ELSE table2model(target)
    IN  IF rel_to \in Range(known)
        THEN s_ForeignKey \o rel_to
        ELSE s_ForeignKey \o s_apos \o rel_to \o s_apos

\* lines 64-142 for one row: the field line it yields, if any
FieldLines(tables, t, i, known) ==
    LET qname == tables[t].qname
        row == inspect_get_table_description(tables, t)[i]
        relations == IF insp_impl.get_relations
                     THEN inspect_get_relations(tables, t)
                     ELSE << >>
        indexes == IF insp_impl.get_indexes
                   THEN inspect_get_indexes(tables, t)
                   ELSE {}
        column_name == row.name
        is_rel == i \in DOMAIN relations
        primary == column_name \in indexes
        field_type == IF is_rel
                      THEN RelFieldType(qname, relations[i], known)
                      ELSE row.type \o s_paren
        att1 == IF is_rel /\ EndsWithStr(column_name, s__id)
                THEN SubSeq(column_name, 1, Len(column_name) - 3)
                ELSE column_name
        att_name == IF iskeyword(att1) THEN att1 \o s__field ELSE att1
        extra_params ==
            (IF iskeyword(column_name) THEN {"db_column"} ELSE {})
            \cup (IF primary THEN {"primary_key"} ELSE {})
            \cup (IF is_rel /\ ~EndsWithStr(column_name, s__id)
                  THEN {"db_column"} ELSE {})
    IN  IF att_name = s_id /\ field_type = s_AutoField \o s_paren
           /\ extra_params = {"primary_key"}
        THEN << >>
        ELSE <<[kind |-> "field", table |-> t, name |-> att_name,
                field_type |-> field_type,
                to |-> IF is_rel THEN tables[t].fk ELSE 0,
                schema |-> None]>>

RECURSIVE AllFieldLines(_, _, _, _)
AllFieldLines(tables, t, i, known) ==
    IF i > Len(inspect_get_table_description(tables, t)) THEN << >>
    ELSE FieldLines(tables, t, i, known)
         \o AllFieldLines(tables, t, i + 1, known)

\* get_meta: the four lines of the inner Meta class
get_meta(tables, t) ==
    <<[kind |-> "Meta", table |-> t, name |-> << >>, field_type |-> << >>,
       to |-> 0, schema |-> None],
      [kind |-> "db_table", table |-> t, name |-> tables[t].qname.table,
       field_type |-> << >>, to |-> 0, schema |-> None],
      [kind |-> "db_schema", table |-> t, name |-> << >>,
       field_type |-> << >>, to |-> 0, schema |-> tables[t].qname.schema],
      [kind |-> "blank", table |-> t, name |-> << >>, field_type |-> << >>,
       to |-> 0, schema |-> None]>>

\* the tables the database holds
InspectQNames ==
    {QName(s_schema1, s_sn, TRUE, 0), QName(s_schema2, s_sn, TRUE, 0),
     QName(s_schema1, s_foo_bar, TRUE, 0), QName(s_schema2, s_bar, TRUE, 0)}

\* the largest number of tables table_names returns
MaxTables == 3

\* table_names results: distinct tables, each with at most one foreign key
\* to a table of the list, itself included
InspectTables ==
    UNION {{tables \in [1..n -> [qname : InspectQNames, fk : 0..n,
                                  fk_column : {s_ref_id, s_from_id}]] :
               /\ \A i, j \in 1..n : i # j => tables[i].qname # tables[j].qname
               /\ \A i \in 1..n : tables[i].fk = 0 =>
                                      tables[i].fk_column = s_ref_id
               /\ \A i \in 1..n : tables[i].fk_column = s_from_id =>
                                      tables[i].fk = n} :
           n \in 1..MaxTables}

\* the qname_filter option: absent, not callable, or a predicate
InspectFilters ==
    {[kind |-> "none", accepts |-> ""],
     [kind |-> "not_callable", accepts |-> ""],
     [kind |-> "callable", accepts |-> "table_sn"],
     [kind |-> "callable", accepts |-> "schema1"]}

\* the backends: one that implements every call, and those that raise
\* NotImplementedError from one or two of them
Implementations ==
    {[AllImplemented EXCEPT !.get_relations = r, !.get_indexes = x] :
        r, x \in BOOLEAN}
    \cup {[AllImplemented EXCEPT !.get_table_description = FALSE],
          [AllImplemented EXCEPT !.table_names = FALSE]}

InspectInit ==
    /\ backend = "postgresql"
    /\ settings_dict = [USER |-> DefaultUser, NAME |-> s_db, SCHEMA |-> None]
    /\ models = [m \in ModelIds |->
                    ModelMeta(m, [x \in ModelIds |-> None], {})]
    /\ conn_open = FALSE
    /\ pc = "inspect"
    /\ next_model = 1
    /\ known_models = {}
    /\ pending_references = EmptyMap
    /\ output = << >>
    /\ last_create = NoCreate
    /\ as_sql = FALSE
    /\ todo1 = {}
    /\ todo2 = {}
    /\ post_sql = << >>
    /\ listing = << >>
    /\ run = NoRun
    /\ last_run = NoLast
    /\ executed = << >>
    /\ error = ""
    /\ references_to_delete = AllReferences(models)
    /\ drop_output = << >>
    /\ last_destroy = NoDestroy
    /\ indexed = << >>
    /\ NamesIdle
    /\ insp_tables \in InspectTables
    /\ insp_filter \in InspectFilters
    /\ insp_pos = 1
    /\ insp_lines = << >>
    /\ insp_known = << >>
    /\ insp_reads = << >>
    /\ insp_impl \in Implementations
    /\ prov = NoProvisioning

\* everything an inspectdb run leaves alone
not_insp_vars == <<creation_vars, prov, qname_in, other_in, resolved, compared,
                   qualified, separate, insp_tables, insp_filter, insp_impl>>

\* lines 50-52: continue
SkipTable ==
    /\ pc = "inspect"
    /\ insp_impl.table_names
    /\ insp_pos <= Len(insp_tables)
    /\ Rejected(insp_filter, insp_tables[insp_pos].qname)
    /\ insp_pos' = insp_pos + 1
    /\ UNCHANGED <<pc, not_insp_vars, insp_lines, insp_known, insp_reads>>

\* lines 53-144: the class line, the fields and the Meta class of a table
EmitTable ==
    /\ pc = "inspect"
    /\ insp_impl.table_names
    /\ insp_impl.get_table_description
    /\ insp_pos <= Len(insp_tables)
    /\ ~Rejected(insp_filter, insp_tables[insp_pos].qname)
    /\ LET qname == insp_tables[insp_pos].qname
           known == Append(insp_known, table2model(qname))
       IN  /\ insp_known' = known
           /\ insp_reads' = Append(insp_reads, qname)
           /\ insp_lines' =
                 insp_lines
                 \o <<[kind |-> "class", table |-> insp_pos,
                       name |-> table2model(qname), field_type |-> << >>,
                       to |-> 0, schema |-> None]>>
                 \o AllFieldLines(insp_tables, insp_pos, 1, known)
                 \o get_meta(insp_tables, insp_pos)
    /\ insp_pos' = insp_pos + 1
    /\ UNCHANGED <<pc, not_insp_vars>>

\* line 49 raises NotImplementedError: handle_noargs turns it into a
\* CommandError, after the header lines and before any table
ListingNotImplemented ==
    /\ pc = "inspect"
    /\ ~insp_impl.table_names
    /\ pc' = "CommandError"
    /\ UNCHANGED <<not_insp_vars, insp_pos, insp_lines, insp_known,
                   insp_reads>>

\* a missing get_table_description taken for an empty description
DescriptionNotImplemented_as_empty ==
    /\ pc = "inspect"
    /\ insp_impl.table_names
    /\ ~insp_impl.get_table_description
    /\ insp_pos <= Len(insp_tables)
    /\ ~Rejected(insp_filter, insp_tables[insp_pos].qname)
    /\ LET qname == insp_tables[insp_pos].qname
       IN  /\ insp_known' = Append(insp_known, table2model(qname))
           /\ insp_lines' =
                 Append(insp_lines,
                        [kind |-> "class", table |-> insp_pos,
                         name |-> table2model(qname), field_type |-> << >>,
                         to |-> 0, schema |-> None])
                 \o get_meta(insp_tables, insp_pos)
    /\ insp_pos' = insp_pos + 1
    /\ UNCHANGED <<pc, not_insp_vars, insp_reads>>

\* line 63 raises NotImplementedError, after the class line of the table
\* was yielded and its name appended to known_models: CommandError
DescriptionNotImplemented ==
    /\ pc = "inspect"
    /\ insp_impl.table_names
    /\ ~insp_impl.get_table_description
    /\ insp_pos <= Len(insp_tables)
    /\ ~Rejected(insp_filter, insp_tables[insp_pos].qname)
    /\ LET qname == insp_tables[insp_pos].qname
       IN  /\ insp_known' = Append(insp_known, table2model(qname))
           /\ insp_lines' =
                 Append(insp_lines,
                        [kind |-> "class", table |-> insp_pos,
                         name |-> table2model(qname), field_type |-> << >>,
                         to |-> 0, schema |-> None])
    /\ pc' = "CommandError"
    /\ UNCHANGED <<not_insp_vars, insp_pos, insp_reads>>

InspectNext ==
    \/ SkipTable
    \/ EmitTable
    \/ ListingNotImplemented
    \/ DescriptionNotImplemented

InspectSpec == InspectInit /\ [][InspectNext]_vars

----------------------------------------------------------------------------
(* Provisioning of the test database: _create_test_db, _create_test_schemas, *)
(* destroy_test_db and _destroy_test_db of BaseDatabaseCreation; Oracle's     *)
(* _create_test_db and _destroy_test_db with _execute_statements.  Every      *)
(* statement a cursor executes may raise; which ones do is an input.          *)

s_test_ == <<"t", "e", "s", "t", "_">>
s__temp == <<"_", "t", "e", "m", "p">>
s_tiger == <<"t", "i", "g", "e", "r">>
s_public == <<"p", "u", "b", "l", "i", "c">>

\* TEST_DATABASE_PREFIX and the PASSWORD constant of oracle/creation.py
TEST_DATABASE_PREFIX == s_test_
PASSWORD == <<"I", "m", "_", "a", "_", "l", "u", "m", "b", "e", "r", "j",
              "a", "c", "k">>

\* the most schemas a run requests, and the most the server holds
MaxSchemas == 2

\* the aliases of the connection and of the one destroy_test_db opens
Default == "default"
DestroyAlias == "__destroy_test_db__"

\* one call made during provisioning: a statement handed to cursor.execute,
\* a prompt, or a switch of constraint checking; ok is FALSE if it raised
Ev(op, arg, conn, ok) ==
    [op |-> op, arg |-> arg, conn |-> conn, ok |-> ok, call |-> 0]

Raises(calls) == \E i \in DOMAIN calls : ~calls[i].ok

\* for name in names: cursor.execute(...), up to the first one that raises;
\* fail is the position of the statement that raises, if any
ExecuteLoop(op, names, conn, fail) ==
    LET n == IF fail \in 1..Len(names) THEN fail ELSE Len(names)
    IN  [i \in 1..n |-> Ev(op, names[i], conn, i # fail)]

\* the arguments of the calls of one kind that did not raise, in order
RECURSIVE Done(_, _)
Done(calls, op) ==
    IF calls = << >> THEN << >>
    ELSE (IF Head(calls).op = op /\ Head(calls).ok
          THEN <<Head(calls).arg>> ELSE << >>) \o Done(Tail(calls), op)

\* try: disable_constraint_checking(); body   finally: enable_...()
WithConstraintCheckingDisabled_no_finally(conn, body) ==
    <<Ev("disable_constraint_checking", None, conn, TRUE)>> \o body
    \o (IF Raises(body) THEN << >>
        ELSE <<Ev("enable_constraint_checking", None, conn, TRUE)>>)

WithConstraintCheckingDisabled(conn, body) ==
    <<Ev("disable_constraint_checking", None, conn, TRUE)>> \o body
    \o <<Ev("enable_constraint_checking", None, conn, TRUE)>>

\* the connections left with constraint checking disabled by some calls
RECURSIVE Unchecked(_, _)
Unchecked(calls, off) ==
    IF calls = << >> THEN off
    ELSE Unchecked(Tail(calls),
             IF Head(calls).op = "disable_constraint_checking"
             THEN off \cup {Head(calls).conn}
             ELSE IF Head(calls).op = "enable_constraint_checking"
             THEN off \ {Head(calls).conn}
             ELSE off)

\* raw_input is called unless autoclobber
Prompt(p) ==
    IF p.autoclobber THEN << >> ELSE <<Ev("raw_input", None, Default, TRUE)>>

Consent_always(p) == TRUE

\* autoclobber or confirm == 'yes'
Consent(p) == p.autoclobber \/ p.confirm = "yes"

Without(seq, names) ==
    LET Keep(s) == s \notin names IN SelectSeq(seq, Keep)

\* BaseDatabaseCreation._get_test_db_name
Base_get_test_db_name(settings) ==
    IF settings.TEST_NAME # None THEN settings.TEST_NAME
    ELSE TEST_DATABASE_PREFIX \o settings.NAME

\* BaseDatabaseCreation._create_test_db
Base_create_test_db(p, settings, create_raises, drop_raises, recreate_raises) ==
    LET test_database_name == Base_get_test_db_name(settings)
        first == <<Ev("CREATE DATABASE", test_database_name, Default,
                      ~create_raises)>>
        drop == WithConstraintCheckingDisabled(Default,
                    <<Ev("DROP DATABASE", test_database_name, Default,
                         ~drop_raises)>>)
        again == IF drop_raises THEN << >>
                 ELSE <<Ev("CREATE DATABASE", test_database_name, Default,
                           ~recreate_raises)>>
        calls == IF ~create_raises THEN first
                 ELSE IF ~Consent(p) THEN first \o Prompt(p)
                 ELSE first \o Prompt(p) \o drop \o again
        status == IF ~create_raises THEN 0
                  ELSE IF ~Consent(p) THEN 1
                  ELSE IF Raises(drop \o again) THEN 2
                  ELSE 0
    IN  [calls |-> calls,
         status |-> status,
         TEST_SCHEMAS |-> IF status = 0
                          THEN Append(settings.TEST_SCHEMAS, test_database_name)
                          ELSE settings.TEST_SCHEMAS]

\* conflicts of BaseDatabaseCreation._create_test_schemas
Conflicts(p) ==
    LET Requested(s) == s \in Range(p.schemas)
    IN  IF ~p.namespaced_schemas THEN SelectSeq(p.server, Requested)
        ELSE << >>

\* BaseDatabaseCreation._create_test_schemas
Base_create_test_schemas(p, settings, fail_destroy, fail_create) ==
    LET existing_schemas == p.server
        conflicts == Conflicts(p)
        prompt == IF conflicts # << >> THEN Prompt(p) ELSE << >>
    IN  IF conflicts # << >> /\ ~Consent(p)
        THEN [calls |-> prompt, outcome |-> "exit", status |-> 1,
              server |-> p.server, TEST_SCHEMAS |-> settings.TEST_SCHEMAS,
              to_create |-> << >>]
        ELSE
        LET clobber == IF conflicts # << >>
                       THEN WithConstraintCheckingDisabled(Default,
                                ExecuteLoop("DROP SCHEMA", conflicts, Default,
                                            fail_destroy))
                       ELSE << >>
            remaining == Without(existing_schemas,
                                 Range(Done(clobber, "DROP SCHEMA")))
            to_create == Without(p.schemas, Range(remaining))
            creates == IF Raises(clobber) THEN << >>
                       ELSE ExecuteLoop("CREATE SCHEMA", to_create, Default,
                                        fail_create)
            created == Done(creates, "CREATE SCHEMA")
        IN  [calls |-> prompt \o clobber \o creates,
             outcome |-> IF Raises(clobber \o creates) THEN "raised"
                         ELSE "return",
             status |-> 0,
             server |-> remaining \o created,
             TEST_SCHEMAS |-> settings.TEST_SCHEMAS \o created,
             to_create |-> IF Raises(clobber \o creates) THEN << >>
                           ELSE to_create]

\* BaseDatabaseCreation._destroy_test_db, run on the connection conn
Base_destroy_test_db(conn, test_database_name, drop_raises) ==
    WithConstraintCheckingDisabled(conn,
        <<Ev("DROP DATABASE", test_database_name, conn, ~drop_raises)>>)
    \o (IF drop_raises THEN << >> ELSE <<Ev("close", None, conn, TRUE)>>)

\* BaseDatabaseCreation.destroy_test_db
destroy_test_db(p, settings, created_schemas, fail_destroy, drop_raises) ==
    LET loop == IF ~p.namespaced_schemas
                THEN WithConstraintCheckingDisabled(Default,
                         ExecuteLoop("DROP SCHEMA", created_schemas, Default,
                                     fail_destroy))
                ELSE << >>
        test_database_name == settings.NAME
    IN  IF Raises(loop) THEN loop
        ELSE loop \o <<Ev("close", None, Default, TRUE)>>
             \o Base_destroy_test_db(DestroyAlias, test_database_name,
                                     drop_raises)

----------------------------------------------------------------------------
(* Oracle: the DDL parameters, the statement lists and the credentials *)

\* DatabaseCreation._test_database_user
Oracle_test_database_user(settings) ==
    IF settings.TEST_USER # None THEN settings.TEST_USER
    ELSE TEST_DATABASE_PREFIX \o settings.USER

\* DatabaseCreation._test_database_passwd
Oracle_test_database_passwd(settings) ==
    IF settings.TEST_PASSWD # None THEN settings.TEST_PASSWD ELSE PASSWORD

\* DatabaseCreation._get_ddl_parameters
Oracle_get_ddl_parameters(settings) ==
    [user |-> Oracle_test_database_user(settings),
     password |-> Oracle_test_database_passwd(settings),
     tblspace |-> TEST_DATABASE_PREFIX \o settings.NAME,
     tblspace_temp |-> TEST_DATABASE_PREFIX \o settings.NAME \o s__temp]

St(op, arg) == [op |-> op, arg |-> arg]

\* the statements of _execute_test_db_creation, _create_test_user,
\* _execute_test_db_destruction and _destroy_test_user
Statements(group, parameters, dba) ==
    IF group \in {"db_creation", "db_recreation"}
    THEN <<St("CREATE TABLESPACE", parameters.tblspace),
           St("CREATE TEMPORARY TABLESPACE", parameters.tblspace_temp)>>
    ELSE IF group \in {"user_creation", "user_recreation"}
    THEN <<St("CREATE USER", parameters.user),
           St(IF dba THEN "GRANT CONNECT, RESOURCE, DBA"
              ELSE "GRANT CONNECT, RESOURCE", parameters.user)>>
    ELSE IF group \in {"db_destruction", "destroy_db"}
    THEN <<St("DROP TABLESPACE", parameters.tblspace),
           St("DROP TABLESPACE", parameters.tblspace_temp)>>
    ELSE <<St("DROP USER", parameters.user)>>

\* a call of _execute_statements begins
Call(p, group) ==
    [p EXCEPT !.group = group,
              !.statements = Statements(group, p.parameters, p.schemas # << >>),
              !.call = @ + 1]

\* the last four assignments of Oracle's _create_test_db
SwitchToTestUser_before_saving(settings, parameters) ==
    [settings EXCEPT !.SAVED_USER = parameters.user,
                     !.SAVED_PASSWORD = parameters.password,
                     !.TEST_USER = parameters.user,
                     !.USER = parameters.user,
                     !.PASSWORD = parameters.password]

SwitchToTestUser(settings, parameters) ==
    [settings EXCEPT !.SAVED_USER = settings.USER,
                     !.SAVED_PASSWORD = settings.PASSWORD,
                     !.TEST_USER = parameters.user,
                     !.USER = parameters.user,
                     !.PASSWORD = parameters.password]

\* the first two assignments of Oracle's _destroy_test_db
RestoreSavedUser(settings) ==
    [settings EXCEPT !.USER = settings.SAVED_USER,
                     !.PASSWORD = settings.SAVED_PASSWORD]

----------------------------------------------------------------------------
(* The provisioning runs *)

SchemaNames == {s_schema1, s_schema2, s_foo}

\* the lists of distinct schema names, as get_schemas and get_schema_list
\* return them
SchemaLists ==
    {q \in UNION {[1..n -> SchemaNames] : n \in 0..MaxSchemas} :
        \A i, j \in DOMAIN q : i # j => q[i] # q[j]}

ProvisionSettings ==
    {[USER |-> s_scott, PASSWORD |-> s_tiger, NAME |-> s_db, SCHEMA |-> None,
      TEST_NAME |-> None, TEST_USER |-> tu, TEST_PASSWD |-> tp,
      TEST_CREATE |-> tc, TEST_USER_CREATE |-> tuc, TEST_SCHEMAS |-> << >>,
      SAVED_USER |-> None, SAVED_PASSWORD |-> None] :
        tu \in {None, s_foo}, tp \in {None, s_bar},
        tc \in BOOLEAN, tuc \in BOOLEAN}

ProvisionInit ==
    /\ backend \in {"mysql", "postgresql", "oracle"}
    /\ settings_dict \in ProvisionSettings
    /\ backend # "oracle" =>
           /\ settings_dict.TEST_USER = None /\ settings_dict.TEST_PASSWD = None
           /\ settings_dict.TEST_CREATE /\ settings_dict.TEST_USER_CREATE
    /\ pc = "create_test_db"
    /\ \E ns \in BOOLEAN, ac \in BOOLEAN, c \in {"yes", "no"},
          requested \in SchemaLists, existing \in SchemaLists :
          /\ ns = (backend = "postgresql")
          /\ backend = "oracle" => existing = << >> /\ Len(requested) <= 1
          /\ prov = [NoProvisioning EXCEPT
                        !.namespaced_schemas = ns, !.autoclobber = ac,
                        !.confirm = c, !.schemas = requested,
                        !.server = <<s_public>> \o existing,
                        !.old_settings = [USER |-> settings_dict.USER,
                                          PASSWORD |-> settings_dict.PASSWORD]]
    /\ models = [m \in ModelIds |-> ModelMeta(m, [i \in ModelIds |-> None], {})]
    /\ conn_open = FALSE
    /\ next_model = 1
    /\ known_models = {}
    /\ pending_references = EmptyMap
    /\ output = << >>
    /\ last_create = NoCreate
    /\ as_sql = FALSE
    /\ todo1 = {}
    /\ todo2 = {}
    /\ post_sql = << >>
    /\ listing = << >>
    /\ run = NoRun
    /\ last_run = NoLast
    /\ executed = << >>
    /\ error = ""
    /\ references_to_delete = EmptyMap
    /\ drop_output = << >>
    /\ last_destroy = NoDestroy
    /\ indexed = << >>
    /\ NamesIdle
    /\ insp_tables = << >>
    /\ insp_filter = [kind |-> "none", accepts |-> ""]
    /\ insp_pos = 1
    /\ insp_lines = << >>
    /\ insp_known = << >>
    /\ insp_reads = << >>
    /\ insp_impl = AllImplemented

\* everything a provisioning run leaves alone
not_prov_vars == <<backend, models, conn_open, next_model, known_models,
                   pending_references, output, last_create, as_sql, todo1,
                   todo2, post_sql, run, last_run, executed, error,
                   references_to_delete, drop_output, last_destroy, listing,
                   indexed, qname_in, other_in, resolved, compared, qualified,
                   separate, insp_vars>>

\* create_test_db up to the schemas: _create_test_db, close, NAME
CreateTestDb ==
    /\ pc = "create_test_db"
    /\ backend # "oracle"
    /\ \E create_raises \in BOOLEAN, drop_raises \in BOOLEAN,
          recreate_raises \in BOOLEAN :
          LET r == Base_create_test_db(prov, settings_dict, create_raises,
                                       drop_raises, recreate_raises)
          IN  /\ prov' = [prov EXCEPT !.calls = @ \o r.calls,
                                      !.unchecked = Unchecked(r.calls, @),
                                      !.status = r.status]
              /\ settings_dict' =
                     [settings_dict EXCEPT
                         !.TEST_SCHEMAS = r.TEST_SCHEMAS,
                         !.NAME = IF r.status = 0
                                  THEN Base_get_test_db_name(settings_dict)
                                  ELSE @]
              /\ pc' = IF r.status = 0 THEN "_create_test_schemas" ELSE "exit"
    /\ UNCHANGED not_prov_vars

\* create_test_db: created_schemas = self._create_test_schemas(...)
CreateTestSchemas ==
    /\ pc = "_create_test_schemas"
    /\ \E fail_destroy \in 0..MaxSchemas, fail_create \in 0..MaxSchemas :
          LET r == Base_create_test_schemas(prov, settings_dict, fail_destroy,
                                            fail_create)
          IN  /\ prov' = [prov EXCEPT !.calls = @ \o r.calls,
                                      !.unchecked = Unchecked(r.calls, @),
                                      !.status = r.status,
                                      !.server = r.server,
                                      !.created_schemas = r.to_create]
              /\ settings_dict' =
                     [settings_dict EXCEPT !.TEST_SCHEMAS = r.TEST_SCHEMAS]
              /\ pc' = IF r.outcome = "return" THEN "created" ELSE r.outcome
    /\ UNCHANGED not_prov_vars

\* destroy_test_db(old_database_name, created_schemas)
DestroyTestDb ==
    /\ pc = "created"
    /\ \E fail_destroy \in 0..MaxSchemas, drop_raises \in BOOLEAN :
          LET calls == destroy_test_db(prov, settings_dict,
                           prov.created_schemas, fail_destroy, drop_raises)
          IN  /\ prov' = [prov EXCEPT
                             !.calls = @ \o calls,
                             !.unchecked = Unchecked(calls, @),
                             !.server = Without(@,
                                 Range(Done(calls, "DROP SCHEMA")))]
              /\ pc' = IF Raises(calls) THEN "raised" ELSE "destroyed"
    /\ UNCHANGED <<settings_dict, not_prov_vars>>

----------------------------------------------------------------------------
(* Oracle's _create_test_db and _destroy_test_db, statement by statement *)

\* lines 113-118 of oracle/creation.py: save, switch, return
SaveAndSwitch ==
    /\ settings_dict' = SwitchToTestUser(settings_dict, prov.parameters)
    /\ pc' = "ora_created"

\* Oracle's _create_test_db up to its first _execute_statements call
OracleCreateTestDb ==
    /\ pc = "create_test_db"
    /\ backend = "oracle"
    /\ LET p == [prov EXCEPT
                    !.parameters = Oracle_get_ddl_parameters(settings_dict)]
       IN  IF settings_dict.TEST_CREATE
           THEN /\ prov' = Call(p, "db_creation")
                /\ pc' = "_execute_statements"
                /\ UNCHANGED settings_dict
           ELSE IF settings_dict.TEST_USER_CREATE
           THEN /\ prov' = Call(p, "user_creation")
                /\ pc' = "_execute_statements"
                /\ UNCHANGED settings_dict
           ELSE /\ prov' = p
                /\ settings_dict' = SwitchToTestUser(settings_dict, p.parameters)
                /\ pc' = "ora_created"
    /\ UNCHANGED not_prov_vars

\* the call cursor.execute(stmt) of _execute_statements, as logged
CursorExecute(p, ok) ==
    [op |-> Head(p.statements).op, arg |-> Head(p.statements).arg,
     conn |-> Default, ok |-> ok, call |-> p.call]

\* _execute_statements: cursor.execute(stmt) returns
ExecuteStatement ==
    /\ pc = "_execute_statements"
    /\ prov.statements # << >>
    /\ prov' = [prov EXCEPT !.calls = Append(@, CursorExecute(prov, TRUE)),
                            !.statements = Tail(@)]
    /\ UNCHANGED <<pc, settings_dict, not_prov_vars>>

\* what the caller of _execute_statements does with the exception
Handle(p) ==
    IF p.group \in {"db_creation", "user_creation"}
    THEN IF Consent(p)
         THEN [prov |-> Call([p EXCEPT !.calls = @ \o Prompt(p)],
                             IF p.group = "db_creation" THEN "db_destruction"
                             ELSE "user_destruction"),
               pc |-> "_execute_statements"]
         ELSE [prov |-> [p EXCEPT !.calls = @ \o Prompt(p), !.status = 1,
                                  !.statements = << >>],
               pc |-> "exit"]
    ELSE IF p.group \in {"db_destruction", "db_recreation",
                         "user_destruction", "user_recreation"}
    THEN [prov |-> [p EXCEPT !.status = 2, !.statements = << >>],
          pc |-> "exit"]
    ELSE [prov |-> [p EXCEPT !.statements = << >>], pc |-> "raised"]

\* _execute_statements: cursor.execute(stmt) raises, the loop is left and
\* the exception reaches the except clause of the caller, if it has one
ExecuteStatementRaises_and_continues ==
    /\ pc = "_execute_statements"
    /\ prov.statements # << >>
    /\ prov' = [prov EXCEPT !.calls = Append(@, CursorExecute(prov, FALSE)),
                            !.statements = Tail(@)]
    /\ UNCHANGED <<pc, settings_dict, not_prov_vars>>

ExecuteStatementRaises ==
    /\ pc = "_execute_statements"
    /\ prov.statements # << >>
    /\ LET h == Handle([prov EXCEPT
                           !.calls = Append(@, CursorExecute(prov, FALSE))])
       IN  /\ prov' = h.prov
           /\ pc' = h.pc
    /\ UNCHANGED <<settings_dict, not_prov_vars>>

\* _execute_statements returns: the caller goes on after the call
ExecuteStatementsReturn ==
    /\ pc = "_execute_statements"
    /\ prov.statements = << >>
    /\ IF prov.group = "db_destruction"
       THEN /\ prov' = Call(prov, "db_recreation")
            /\ UNCHANGED <<pc, settings_dict>>
       ELSE IF prov.group = "user_destruction"
       THEN /\ prov' = Call(prov, "user_recreation")
            /\ UNCHANGED <<pc, settings_dict>>
       ELSE IF prov.group \in {"db_creation", "db_recreation"}
               /\ settings_dict.TEST_USER_CREATE
       THEN /\ prov' = Call(prov, "user_creation")
            /\ UNCHANGED <<pc, settings_dict>>
       ELSE IF prov.group \in {"db_creation", "db_recreation",
                               "user_creation", "user_recreation"}
       THEN /\ SaveAndSwitch
            /\ UNCHANGED prov
       ELSE IF prov.group = "destroy_db" /\ settings_dict.TEST_USER_CREATE
       THEN /\ prov' = Call(prov, "destroy_user")
            /\ UNCHANGED <<pc, settings_dict>>
       ELSE /\ prov' = [prov EXCEPT
                           !.calls = Append(@, Ev("close", None, Default, TRUE))]
            /\ pc' = "ora_destroyed"
            /\ UNCHANGED settings_dict
    /\ UNCHANGED not_prov_vars

\* Oracle's _destroy_test_db up to its first _execute_statements call
OracleDestroyTestDb ==
    /\ pc = "ora_created"
    /\ settings_dict' = RestoreSavedUser(settings_dict)
    /\ LET p == [prov EXCEPT
                    !.parameters = Oracle_get_ddl_parameters(settings_dict)]
       IN  IF settings_dict.TEST_CREATE
           THEN prov' = Call(p, "destroy_db") /\ pc' = "_execute_statements"
           ELSE IF settings_dict.TEST_USER_CREATE
           THEN prov' = Call(p, "destroy_user") /\ pc' = "_execute_statements"
           ELSE /\ prov' = [p EXCEPT
                               !.calls = Append(@, Ev("close", None, Default,
                                                      TRUE))]
                /\ pc' = "ora_destroyed"
    /\ UNCHANGED not_prov_vars

ProvisionNext ==
    \/ CreateTestDb
    \/ CreateTestSchemas
    \/ DestroyTestDb
    \/ OracleCreateTestDb
    \/ ExecuteStatement
    \/ ExecuteStatementRaises
    \/ ExecuteStatementsReturn
    \/ OracleDestroyTestDb

ProvisionSpec == ProvisionInit /\ [][ProvisionNext]_vars

\* the batch runs and the provisioning runs together
FailureInit == Init \/ ProvisionInit

FailureNext == Next \/ ProvisionNext

FailureSpec == FailureInit /\ [][FailureNext]_vars

----------------------------------------------------------------------------
(* Vocabulary of the properties *)

\* every foreign key's target is created before the model that declares it
Topological ==
    \A mf \in FKFields : models[mf[1]].local_fields[mf[2]].rel < mf[1]

\* the positions of the inline REFERENCES clauses in a statement list
InlineClauses(sql) ==
    UNION {{<<j, k>> : k \in {x \in DOMAIN sql[j].columns :
                                 sql[j].columns[x].references # << >>}} :
           j \in DOMAIN sql}

\* the positions of the statements of one kind in a statement list
OfKind(sql, kind) == {j \in DOMAIN sql : sql[j].kind = kind}

\* the (model, field) pairs a pending map holds, with the key of each
PendingKeyed(pending) ==
    {<<e[1], pending[e[1]][e[2]]>> : e \in Entries(pending)}

\* the target of foreign-key field mf
RelOf(mf) == models[mf[1]].local_fields[mf[2]].rel

\* the foreign keys the backend's eligibility rule never accepts inline
NeverInline(mf) ==
    \/ backend = "mysql"
    \/ /\ backend = "oracle"
       /\ needs_separate_conn(connection_qualified_name(mf[1]),
                              connection_qualified_name(RelOf(mf)))

\* the state in which the last model of the batch has just been created
AllCreated ==
    /\ known_models = ModelIds
    /\ \/ pc = "post"
       \/ pc = "done" /\ backend # "oracle"

----------------------------------------------------------------------------
(* C1 *)

----------------------------------------------------------------------------
(* C2 *)

\* every statement the creation calls and the coordinator returned
CreationSql == output \o post_sql

\* C2: the constraint name in ALTER TABLE ... ADD CONSTRAINT equals the name
\* in the drop statement of the same (referencing model, field, target).
C2_SameConstraintName ==
    \A a \in OfKind(CreationSql, "ALTER TABLE ADD CONSTRAINT") :
    \A d \in OfKind(drop_output, "ALTER TABLE DROP CONSTRAINT") :
        ( /\ CreationSql[a].model = drop_output[d].model
          /\ CreationSql[a].field = drop_output[d].field
          /\ CreationSql[a].target = drop_output[d].target )
        => CreationSql[a].name = drop_output[d].name

\* a reference was created and dropped under a truncated name, between
\* tables of different names
C2_Witness ==
    \E a \in OfKind(CreationSql, "ALTER TABLE ADD CONSTRAINT") :
    \E d \in OfKind(drop_output, "ALTER TABLE DROP CONSTRAINT") :
        /\ CreationSql[a].model = drop_output[d].model
        /\ CreationSql[a].field = drop_output[d].field
        /\ CreationSql[a].target = drop_output[d].target
        /\ models[CreationSql[a].model].db_table
             # models[CreationSql[a].target].db_table
        /\ Len(CreateRName(CreationSql[a].target, CreationSql[a].model,
                           CreationSql[a].field)) > max_name_length
        /\ CreationSql[a].name = drop_output[d].name

----------------------------------------------------------------------------
(* C3 *)

\* Oracle's coordinator ran to its end, executing, on a map that holds one
\* reference, from a model owned by one schema to a model owned by another
SingleCrossReference ==
    /\ backend = "oracle"
    /\ pc = "done"
    /\ ~as_sql
    /\ Cardinality(Entries(pending_references)) = 1
    /\ \A kr \in PendingKeyed(pending_references) :
          OwnerSchema(kr[2][1]) # OwnerSchema(kr[1])

\* the positions in executed of the statements of one kind run as one user
ExecutedAs(kind, user) ==
    {j \in DOMAIN executed :
        executed[j].sql.kind = kind /\ executed[j].user = user}

\* one GRANT ran as the target's owner B, one ADD CONSTRAINT as the
\* referencing model's owner A, and nothing else ran
OneGrantOneAlter ==
    \A kr \in PendingKeyed(pending_references) :
        LET A == OwnerSchema(kr[2][1])
            B == OwnerSchema(kr[1])
        IN  /\ Cardinality(ExecutedAs("GRANT REFERENCES", B)) = 1
            /\ Cardinality(ExecutedAs("ALTER TABLE ADD CONSTRAINT", A)) = 1
            /\ Len(executed) = 2
            /\ \A j \in ExecutedAs("GRANT REFERENCES", B) :
                  /\ executed[j].sql.table = quote_name(models[kr[1]].db_table)
                  /\ executed[j].sql.user = quote_name(A)
            /\ \A j \in ExecutedAs("ALTER TABLE ADD CONSTRAINT", A) :
                  /\ executed[j].sql.model = kr[2][1]
                  /\ executed[j].sql.field = kr[2][2]
                  /\ executed[j].sql.target = kr[1]

----------------------------------------------------------------------------
(* C4 *)

InRun == pc \in {"cursor", "execute", "finally"}

\* C4 as stated: after every _run_sql_as_user call, normal or raising, the
\* settings are those from before the call and the connection is closed.
C4_RestoredAndClosed ==
    last_run.called =>
        /\ last_run.settings_after = last_run.settings_before
        /\ ~last_run.open_after

\* C4 amended: after every _run_sql_as_user call, normal or raising, the
\* settings are those from before the call; the connection is closed when
\* the statement list was not empty, and as it was before the call when the
\* list was empty; outside a call USER is the original user.
C4_RestoredAndClosedIfRun ==
    /\ last_run.called =>
          /\ last_run.settings_after = last_run.settings_before
          /\ last_run.sql # << >> => ~last_run.open_after
          /\ last_run.sql = << >> => last_run.open_after = last_run.open_before
    /\ ~InRun =>
          /\ settings_dict.USER = DefaultUser
          /\ last_run.called => settings_dict = last_run.settings_after
          /\ (last_run.called /\ last_run.sql # << >> /\ pc = "raised")
                => ~conn_open

\* a call that switched the user has ended by an exception
C4_Witness ==
    /\ last_run.called
    /\ last_run.raised
    /\ last_run.user # DefaultUser
    /\ pc = "raised"

----------------------------------------------------------------------------
(* C5 *)

\* the batch has ended: the coordinator returned, or a generation call raised
BatchEnded == pc = "done" \/ (pc = "raised" /\ error = "AttributeError")

\* C5: on Oracle a foreign key between models of different schemas is never
\* inline, and the DDL of the batch holds one GRANT and one ADD CONSTRAINT
\* for it, whatever the creation order.
C5_CrossSchemaGrantAndAlter ==
    (backend = "oracle" /\ BatchEnded) =>
        \A mf \in FKFields :
            OwnerSchema(mf[1]) # OwnerSchema(RelOf(mf)) =>
                /\ \A jk \in InlineClauses(output) :
                      ~(output[jk[1]].model = mf[1]
                        /\ output[jk[1]].columns[jk[2]].field = mf[2])
                /\ Cardinality({j \in OfKind(post_sql, "GRANT REFERENCES") :
                       /\ post_sql[j].target = RelOf(mf)
                       /\ post_sql[j].user = quote_name(OwnerSchema(mf[1]))})
                   = 1
                /\ Cardinality(
                       {j \in OfKind(post_sql, "ALTER TABLE ADD CONSTRAINT") :
                           /\ post_sql[j].model = mf[1]
                           /\ post_sql[j].field = mf[2]}) = 1

----------------------------------------------------------------------------
(* C6, C7, C8: the eligibility rule, as sql_create_model last applied it *)

\* the foreign-key field of a call is recorded under its target's key
Recorded(c) ==
    /\ c.rel \in DOMAIN last_create.pending_references
    /\ <<last_create.model, c.field>>
          \in Range(last_create.pending_references[c.rel])

\* C6: on the default/PostgreSQL backend a foreign key is inline, with one
\* REFERENCES clause, iff its target is in known_models; otherwise there is
\* no clause and (model, field) is recorded under the target's key.
C6_InlineIffKnown ==
    backend = "postgresql" =>
        \A j \in DOMAIN last_create.calls :
            LET c == last_create.calls[j]
            IN  /\ ~c.pending <=> c.rel \in last_create.known
                /\ ~c.pending =>
                      /\ Len(c.ref_output) = 1
                      /\ c.ref_output[1].kind = "REFERENCES"
                      /\ c.references = c.ref_output
                      /\ ~Recorded(c)
                /\ c.pending =>
                      /\ c.ref_output = << >>
                      /\ c.references = << >>
                      /\ Recorded(c)

\* one model declared a foreign key to a known and one to an unknown model
C6_Witness ==
    /\ backend = "postgresql"
    /\ \E j, k \in DOMAIN last_create.calls :
          /\ last_create.calls[j].pending
          /\ ~last_create.calls[k].pending

\* C7: on MySQL every foreign key is deferred, whatever known_models holds:
\* no clause, pending, recorded in the returned map, and no CREATE TABLE
\* with an inline REFERENCES clause.
C7_MySQLAlwaysDeferred ==
    backend = "mysql" =>
        /\ \A j \in DOMAIN last_create.calls :
              LET c == last_create.calls[j]
              IN  /\ c.pending
                  /\ c.ref_output = << >>
                  /\ c.references = << >>
                  /\ Recorded(c)
        /\ InlineClauses(output) = {}

\* MySQL deferred a foreign key whose target was already known
C7_Witness ==
    /\ backend = "mysql"
    /\ \E j \in DOMAIN last_create.calls :
          /\ last_create.calls[j].rel \in last_create.known
          /\ last_create.calls[j].pending

NeedsSeparate(m, t) ==
    needs_separate_conn(connection_qualified_name(m),
                        connection_qualified_name(t))

\* C8 as stated: on Oracle a foreign key is inline iff needs_separate_conn
\* of the two names is false.
C8_InlineIffSameConnection ==
    (backend = "oracle" /\ ~InRun) =>
        \A j \in DOMAIN last_create.calls :
            LET c == last_create.calls[j]
            IN  ~c.pending <=> ~NeedsSeparate(last_create.model, c.rel)

\* C8 amended: on Oracle a foreign key is inline iff needs_separate_conn of
\* the two names is false and the target is in known_models.
C8_InlineIffSameConnectionAndKnown ==
    (backend = "oracle" /\ ~InRun) =>
        \A j \in DOMAIN last_create.calls :
            LET c == last_create.calls[j]
            IN  /\ ~c.pending <=>
                      /\ ~NeedsSeparate(last_create.model, c.rel)
                      /\ c.rel \in last_create.known
                /\ c.pending <=> c.ref_output = << >>

\* Oracle took one foreign key inline and deferred another of the same
\* model that needs a separate connection although its target is known
C8_Witness ==
    /\ backend = "oracle"
    /\ ~InRun
    /\ \E j, k \in DOMAIN last_create.calls :
          /\ ~last_create.calls[j].pending
          /\ last_create.calls[k].pending
          /\ last_create.calls[k].rel \in last_create.known

----------------------------------------------------------------------------
(* C9 *)

\* C9: needs_separate_conn is true exactly when one of the two resolved
\* schemas differs from the default schema or they differ from each other.
C9_SeparateIffNotAllEqual ==
    (backend = "oracle" /\ ~InRun) =>
        \A a, b \in ModelIds :
            NeedsSeparate(a, b) <=>
                \/ OwnerSchema(a) # DefaultSchema
                \/ OwnerSchema(b) # DefaultSchema
                \/ OwnerSchema(a) # OwnerSchema(b)

\* Oracle deferred a foreign key between two models of one schema that is
\* not the default schema
C9_Witness ==
    /\ backend = "oracle"
    /\ ~InRun
    /\ \E j \in DOMAIN last_create.calls :
          /\ last_create.calls[j].pending
          /\ last_create.calls[j].rel \in last_create.known
          /\ OwnerSchema(last_create.model)
               = OwnerSchema(last_create.calls[j].rel)
          /\ OwnerSchema(last_create.model) # DefaultSchema

----------------------------------------------------------------------------
(* C10 *)

Destroyed == last_destroy.model # 0 /\ last_destroy.had_references

\* C10 as stated: every statement dropping a constraint that references the
\* model comes before DROP TABLE, and the drop-sequence statement after it.
C10_ConstraintsBeforeDropTable ==
    Destroyed =>
        LET out == last_destroy.output
        IN  /\ \A a \in OfKind(out, "ALTER TABLE DROP CONSTRAINT") :
               \A t \in OfKind(out, "DROP TABLE") : a < t
            /\ \A s \in OfKind(out, "DROP SEQUENCE") :
               \A t \in OfKind(out, "DROP TABLE") : t < s

\* C10 amended: DROP TABLE is the first statement, every statement dropping
\* a constraint that references the model comes after it, one per entry of
\* references_to_delete, and the drop-sequence statement comes last.
C10_DropTableFirst ==
    Destroyed =>
        LET out == last_destroy.output
            cons == OfKind(out, "ALTER TABLE DROP CONSTRAINT")
        IN  /\ OfKind(out, "DROP TABLE") = {1}
            /\ Cardinality(cons)
               = Cardinality({mf \in FKFields : RelOf(mf) = last_destroy.model})
            /\ cons # {}
            /\ \A a \in cons : 1 < a
            /\ \A s \in OfKind(out, "DROP SEQUENCE") :
                  /\ s = Len(out)
                  /\ \A a \in cons : a < s
            /\ last_destroy.model \notin DOMAIN references_to_delete

\* a referenced model with an auto field was destroyed on a backend that
\* has sequences
C10_Witness ==
    /\ Destroyed
    /\ OfKind(last_destroy.output, "DROP SEQUENCE") # {}
    /\ OfKind(last_destroy.output, "ALTER TABLE DROP CONSTRAINT") # {}

----------------------------------------------------------------------------
(* C11 *)

IsComment(s) == s.kind = "-- Connect as user"

StripComments(sql) == SelectSeq(sql, LAMBDA s : ~IsComment(s))

\* the statements the cursors executed, in order
ExecutedSql == [j \in DOMAIN executed |-> executed[j].sql]

IsPrefix(a, b) == Len(a) <= Len(b) /\ SubSeq(b, 1, Len(a)) = a

\* the position in sql of its j-th statement that is no comment
StatementAt(sql, j) ==
    CHOOSE k \in DOMAIN sql :
        /\ ~IsComment(sql[k])
        /\ Cardinality({x \in 1..k : ~IsComment(sql[x])}) = j

\* the user named by the last comment before position k of sql
CommentUser(sql, k) ==
    LET cs == {x \in 1..k : IsComment(sql[x])}
    IN  sql[CHOOSE x \in cs : \A y \in cs : y <= x].user

\* the coordinator returned from an executing call that raised nothing
Executed == backend = "oracle" /\ pc = "done" /\ ~as_sql

\* C11: for one pending map the as_sql=True listing, without its comment
\* lines, is the sequence of statements the as_sql=False call executes, and
\* each group of the listing follows a comment naming the user under which
\* the as_sql=False call executes that group.
C11_ListingIsWhatRuns ==
    /\ as_sql => (post_sql = listing /\ executed = << >> /\ ~last_run.called)
    /\ listing # << >> => IsComment(listing[1])
    /\ ~as_sql => IsPrefix(ExecutedSql, StripComments(listing))
    /\ Executed =>
          /\ ExecutedSql = StripComments(listing)
          /\ post_sql = StripComments(listing)
          /\ \A j \in DOMAIN executed :
                executed[j].user
                   = CommentUser(listing, StatementAt(listing, j))

\* an executing call ran statements under two users, and one group of its
\* listing holds a comment only
C11_Witness ==
    /\ Executed
    /\ \E i, j \in DOMAIN executed : executed[i].user # executed[j].user
    /\ \E k \in DOMAIN listing :
          /\ IsComment(listing[k])
          /\ k < Len(listing)
          /\ IsComment(listing[k + 1])

----------------------------------------------------------------------------
(* C12 *)

\* the model owns no table: Meta.managed is False or it is a proxy
NoTable(m) == m # 0 /\ (~models[m].managed \/ models[m].proxy)

\* C12: for an unmanaged or proxy model sql_create_model returns no
\* statement and an empty pending map, sql_indexes_for_model returns no
\* statement, and sql_destroy_model returns no statement and leaves
\* references_to_delete as it was.
C12_NoTableNoStatements ==
    /\ NoTable(last_create.model) =>
          /\ last_create.output = << >>
          /\ last_create.pending_references = EmptyMap
    /\ \A j \in DOMAIN indexed :
          NoTable(indexed[j].model) => indexed[j].output = << >>
    /\ NoTable(last_destroy.model) =>
          /\ last_destroy.output = << >>
          /\ last_destroy.after = last_destroy.before
          /\ references_to_delete = last_destroy.before

\* the three functions were called for an unmanaged or proxy model that
\* declares a foreign key and indexed fields and that others reference
C12_Witness ==
    /\ NoTable(last_create.model)
    /\ last_destroy.model = last_create.model
    /\ last_destroy.had_references
    /\ \E j \in DOMAIN indexed :
          /\ indexed[j].model = last_create.model
          /\ \E i \in DOMAIN models[indexed[j].model].local_fields :
                LET f == models[indexed[j].model].local_fields[i]
                IN  f.db_index /\ ~f.unique /\ f.rel # 0

----------------------------------------------------------------------------
(* C13 *)

\* the local fields of m that are indexed and not unique
IndexedFields(m) ==
    {i \in DOMAIN models[m].local_fields :
        models[m].local_fields[i].db_index /\ ~models[m].local_fields[i].unique}

\* C13: for a managed, non-proxy model sql_indexes_for_model returns one
\* CREATE INDEX statement for each local field with db_index that is not
\* unique, in field order, and nothing for any other field.
C13_OneIndexPerIndexedField ==
    \A j \in DOMAIN indexed :
        LET m == indexed[j].model
            out == indexed[j].output
        IN  ~NoTable(m) =>
               /\ Len(out) = Cardinality(IndexedFields(m))
               /\ \A k \in DOMAIN out :
                     /\ out[k].kind = "CREATE INDEX"
                     /\ out[k].model = m
                     /\ out[k].field \in IndexedFields(m)
                     /\ Cardinality({x \in IndexedFields(m) :
                                        x <= out[k].field}) = k
                     /\ out[k].column = quote_name(
                            models[m].local_fields[out[k].field].column)

\* the indexes of a managed model were generated that has two indexed
\* fields, a field that is indexed and unique, and a field with no index
C13_Witness ==
    \E j \in DOMAIN indexed :
        LET m == indexed[j].model
            fs == models[m].local_fields
        IN  /\ ~NoTable(m)
            /\ Len(indexed[j].output) >= 2
            /\ \E i \in DOMAIN fs : fs[i].db_index /\ fs[i].unique
            /\ \E i \in DOMAIN fs :
                  ~fs[i].db_index /\ ~fs[i].unique /\ ~fs[i].primary_key

----------------------------------------------------------------------------
(* C14 *)

\* the identifier the backend falls back to when a schema is forced
ForcedFallback ==
    IF backend = "mysql" THEN settings_dict.NAME ELSE settings_dict.USER

\* C14: on MySQL and Oracle a name with db_format true and (a schema or no
\* force_schema) is returned unchanged; otherwise the schema becomes
\* convert_schema(name.schema), and when that is empty and force_schema is
\* true the connection's NAME (MySQL) or USER (Oracle); table and model are
\* kept.  With force_schema and a non-empty NAME (USER) the result has a
\* non-empty schema.
C14_SameShape ==
    backend \in {"mysql", "oracle"} =>
        \A k \in DOMAIN resolved :
            LET q == resolved[k].arg
                force == resolved[k].force_schema
                r == resolved[k].result
                conv == IF q.schema # None THEN q.schema
                        ELSE settings_dict.SCHEMA
            IN  /\ (q.db_format /\ (q.schema # None \/ ~force)) => r = q
                /\ ~(q.db_format /\ (q.schema # None \/ ~force)) =>
                      /\ r.db_format
                      /\ r.schema = (IF conv = None /\ force
                                     THEN ForcedFallback ELSE conv)
                /\ r.table = q.table
                /\ r.model = q.model
                /\ (force /\ ForcedFallback # None) => r.schema # None

\* the fallback was used: a forced resolution of a name
\* without schema on a connection without default schema
C14_Witness ==
    /\ backend \in {"mysql", "oracle"}
    /\ Len(resolved) = 3
    /\ qname_in.schema = None
    /\ settings_dict.SCHEMA = None
    /\ ForcedFallback # None
    /\ resolved[3].result.schema = ForcedFallback
    /\ resolved[1].force_schema = FALSE
    /\ resolved[1].result.schema = None

----------------------------------------------------------------------------
(* C15 *)

\* C15, as stated: on PostgreSQL, for every input name without schema the
\* schema of the result is connection.schema.
C15_AbsentSchemaGetsConnectionSchema ==
    backend = "postgresql" =>
        \A k \in DOMAIN resolved :
            resolved[k].arg.schema = None =>
                resolved[k].result.schema = settings_dict.SCHEMA

\* C15: on PostgreSQL, for every input name without schema and with
\* db_format false the schema of the result is connection.schema (which may
\* be empty); a name with db_format true is returned as it is.
C15_UnresolvedAbsentSchemaGetsConnectionSchema ==
    backend = "postgresql" =>
        \A k \in DOMAIN resolved :
            LET q == resolved[k].arg
                r == resolved[k].result
            IN  /\ (q.schema = None /\ ~q.db_format) =>
                      /\ r.schema = settings_dict.SCHEMA
                      /\ r.table = q.table
                      /\ r.db_format
                /\ q.db_format => r = q

\* PostgreSQL resolved a name without schema, not yet in database format,
\* on a connection with a schema setting, and resolved the result again
C15_Witness ==
    /\ backend = "postgresql"
    /\ settings_dict.SCHEMA # None
    /\ Len(resolved) = 3
    /\ qname_in.schema = None
    /\ ~qname_in.db_format
    /\ resolved[1].result.schema = settings_dict.SCHEMA
    /\ resolved[2].result = resolved[1].result

----------------------------------------------------------------------------
(* C16 *)

\* C16: on PostgreSQL resolving a name with force_schema gives the same
\* name as resolving it without, and the result of a forced resolution can
\* have no schema.
C16_ForceIsNoOp ==
    backend = "postgresql" =>
        \A j, k \in DOMAIN resolved :
            resolved[j].arg = resolved[k].arg =>
                resolved[j].result = resolved[k].result

\* PostgreSQL resolved one name without and with force_schema, and the
\* forced result has no schema
C16_Witness ==
    /\ backend = "postgresql"
    /\ Len(resolved) = 3
    /\ ~resolved[1].force_schema
    /\ resolved[3].force_schema
    /\ resolved[3].arg = resolved[1].arg
    /\ ~resolved[3].arg.db_format
    /\ resolved[3].result.schema = None
    /\ resolved[3].result = resolved[1].result

----------------------------------------------------------------------------
(* C17 *)

\* C17: on each backend qname_converter leaves its argument as it was, its
\* result has db_format true, resolving a result again with the same
\* force_schema gives an equal name, and resolving without and then with
\* force_schema gives the name a forced resolution gives directly.
C17_PureAndIdempotent ==
    /\ \A k \in DOMAIN resolved : resolved[k].result.db_format
    /\ Len(resolved) >= 1 => resolved[1].arg = qname_in
    /\ Len(resolved) >= 2 =>
          /\ resolved[2].arg = resolved[1].result
          /\ resolved[2].force_schema = resolved[1].force_schema =>
                /\ QNameEq(resolved[2].result, resolved[1].result)
                /\ resolved[2].result.model = resolved[1].result.model
    /\ Len(resolved) = 3 =>
          /\ resolved[3].arg = qname_in
          /\ (~resolved[1].force_schema /\ resolved[2].force_schema) =>
                /\ QNameEq(resolved[2].result, resolved[3].result)
                /\ resolved[2].result.model = resolved[3].result.model

\* a name without schema and not in database format was resolved without
\* force_schema, the result again with it, and the name itself with it, and
\* the forced resolutions filled in a schema the unforced one did not
C17_Witness ==
    /\ Len(resolved) = 3
    /\ ~qname_in.db_format
    /\ qname_in.schema = None
    /\ ~resolved[1].force_schema
    /\ resolved[2].force_schema
    /\ resolved[1].result.schema = None
    /\ resolved[3].result.schema # None
    /\ resolved[2].result = resolved[3].result

----------------------------------------------------------------------------
(* C18 *)

\* C18: two QNames are equal, and have equal hashes, when their schema,
\* table and db_format are equal, whatever their models; two names with
\* db_format true are equal exactly when schema and table match;
\* qualified_name replaces only the schema, by the router's schema when the
\* router gives one, and keeps table and db_format.
C18_EqualityIgnoresModel ==
    /\ compared.called =>
          /\ compared.eq <=> (/\ qname_in.schema = other_in.schema
                              /\ qname_in.table = other_in.table
                              /\ qname_in.db_format = other_in.db_format)
          /\ compared.eq => compared.hash_eq
          /\ (qname_in.db_format /\ other_in.db_format) =>
                (compared.eq <=> (/\ qname_in.schema = other_in.schema
                                  /\ qname_in.table = other_in.table))
    /\ qualified.called =>
          /\ qualified.result.table = qname_in.table
          /\ qualified.result.db_format = qname_in.db_format
          /\ qualified.result.schema =
                (IF qualified.router_none THEN qname_in.schema
                 ELSE qualified.schema)
          /\ qualified.router_none => qualified.result = qname_in

\* two names with the same schema, table and db_format and different models
\* were compared, and qualified_name put the router's schema in place of
\* the schema of the first
C18_Witness ==
    /\ compared.called
    /\ compared.eq
    /\ compared.hash_eq
    /\ qname_in.model # other_in.model
    /\ qname_in.schema # None
    /\ qname_in.db_format
    /\ qualified.called
    /\ ~qualified.router_none
    /\ qualified.result.schema # qname_in.schema
    /\ qualified.result.model # qname_in.model

----------------------------------------------------------------------------
(* C19 *)

\* the name needs_separate_conn resolves to read the default schema
DefaultSchemaProbe == QName(None, None, FALSE, 0)

----------------------------------------------------------------------------
(* C20 *)

\* the schema the Oracle resolver gives a name, folded to lower case
FoldedSchema(qname) ==
    identifier_converter(Oracle_qname_converter(qname, TRUE).schema)

\* C20: on Oracle needs_separate_conn compares schema names folded to lower
\* case, so that two names differing only in letter case are one schema.
C20_CaseFoldedComparison ==
    (backend = "oracle" /\ separate.called) =>
        separate.result =
            (\/ FoldedSchema(DefaultSchemaProbe) # FoldedSchema(qname_in)
             \/ FoldedSchema(other_in) # FoldedSchema(qname_in))

----------------------------------------------------------------------------
(* C21 *)

\* two models that declare one table name in two different schemas
SameNameTwoSchemas(a, b) ==
    /\ a # b
    /\ models[a].db_table = models[b].db_table
    /\ models[a].db_schema # None
    /\ models[b].db_schema # None
    /\ models[a].db_schema # models[b].db_schema

\* the CREATE TABLE statements emitted so far for model m
CreateTableOf(m) ==
    {output[k] : k \in {j \in DOMAIN output :
                           /\ output[j].kind = "CREATE TABLE"
                           /\ output[j].model = m}}

\* C21: two models with the same table name and different declared schemas
\* have different resolved qualified names on the backend's resolver, with
\* and without force_schema, and their CREATE TABLE statements name
\* different qualified tables.
C21_SameNameNoCollision ==
    \A a, b \in ModelIds :
        SameNameTwoSchemas(a, b) =>
            /\ \A force_schema \in BOOLEAN :
                  ~QNameEq(qname_converter(connection_qualified_name(a),
                                           force_schema),
                           qname_converter(connection_qualified_name(b),
                                           force_schema))
            /\ \A x \in CreateTableOf(a) : \A y \in CreateTableOf(b) :
                  x.table # y.table

\* the tables of two models named 'sn', one in schema1 and one in schema2,
\* were both created
C21_Witness ==
    /\ SameNameTwoSchemas(1, 2)
    /\ CreateTableOf(1) # {}
    /\ CreateTableOf(2) # {}

----------------------------------------------------------------------------
(* C22 *)

\* C22: two names without a schema of their own and with different table
\* names are resolved, under one connection schema, to names that are not
\* equal and not composed to the same text; so 'bar' and 'foo_bar' under
\* the connection schema 'foo'.
C22_NoPrefixCollision ==
    (/\ compared.called
     /\ qname_in.schema = None
     /\ other_in.schema = None
     /\ qname_in.table # other_in.table) =>
        /\ ~compared.eq
        /\ ~compared.resolved_eq
        /\ ~compared.forced_eq
        /\ ~compared.composed_eq

\* table 'bar' and table 'foo_bar', both without schema, were resolved and
\* compared on a connection whose schema is 'foo'
C22_Witness ==
    /\ compared.called
    /\ settings_dict.SCHEMA = s_foo
    /\ qname_in = QName(None, s_bar, FALSE, 1)
    /\ other_in.schema = None
    /\ other_in.table = s_foo_bar
    /\ ~compared.resolved_eq

----------------------------------------------------------------------------
(* C23 *)

\* a quoted name without its quoting characters
Unquoted(name) == SubSeq(name, 2, Len(name) - 1)

EndsWith(name, suffix) ==
    /\ Len(name) >= Len(suffix)
    /\ SubSeq(name, Len(name) - Len(suffix) + 1, Len(name)) = suffix

\* n is what truncation may make of raw, a name the generator ended with
\* the digest suffix
TruncatedKeepingDigest(raw, n, suffix) ==
    /\ EndsWith(raw, suffix)
    /\ Len(raw) <= max_name_length => n = raw
    /\ Len(raw) > max_name_length =>
          /\ Len(n) <= max_name_length
          /\ EndsWith(n, suffix)

\* the index name as the generator builds it, before it is truncated
RawIndexName(m, col) ==
    LET schema == IF models[m].db_schema # None
                  THEN models[m].db_schema ELSE settings_dict.SCHEMA
        prefix == IF backend = "mysql" /\ schema # None
                  THEN truncate_name(convert_schema(schema),
                                     max_name_length \div 2) \o s_us
                  ELSE << >>
    IN  prefix \o models[m].db_table \o s_us \o digest(<<col>>)

\* the index name in a CREATE INDEX statement, without schema and quotes
EmittedIndexName(st) ==
    IF backend = "mysql" THEN Unquoted(st.name)
    ELSE LET m == st.model
             col == models[m].local_fields[st.field].column
             q == index_qname(m, col)
         IN  IF st.name = compose_qualified_name(q) THEN q.table ELSE << >>

----------------------------------------------------------------------------
(* C24 *)

----------------------------------------------------------------------------
(* C25 *)

\* the caller is at a generation call: sql_create_model with
\* sql_for_pending_references, sql_indexes_for_model, sql_destroy_model, or
\* post_create_pending_references with as_sql=True
Generating ==
    \/ pc \in {"create", "done", "destroy"}
    \/ pc = "post" /\ as_sql'
    \/ pc \in {"pass1", "pass2"} /\ as_sql

\* a generation step executes nothing and leaves the connection and its
\* settings as they were; sql_create_model gets known_models and leaves
\* it to the caller, who adds the model created
GenerationStep ==
    Generating =>
        /\ executed' = executed
        /\ conn_open' = conn_open
        /\ settings_dict' = settings_dict
        /\ run' = run
        /\ pc = "create" =>
              /\ last_create'.known = known_models
              /\ known_models' = known_models \cup {next_model}
        /\ pc # "create" => known_models' = known_models

\* the generation calls made, repeated on the same arguments under the
\* same settings, return the lists they returned
SameOnRepeat ==
    ~InRun =>
        /\ last_create.model # 0 =>
              LET c == sql_create_model(last_create.model, last_create.known)
              IN  /\ c.output = last_create.output
                  /\ c.pending_references = last_create.pending_references
        /\ \A j \in DOMAIN indexed :
              /\ indexed[j].again = indexed[j].output
              /\ sql_indexes_for_model(indexed[j].model) = indexed[j].output
        /\ last_destroy.model # 0 =>
              sql_destroy_model(last_destroy.model, last_destroy.before).output
                  = last_destroy.output

----------------------------------------------------------------------------
(* inspectdb *)

\* the tables of table_names before position n that a callable filter lets
\* through, as class names in iteration order
RECURSIVE ClassNamesOfAccepted(_)
ClassNamesOfAccepted(n) ==
    IF n = 0 THEN << >>
    ELSE IF FilterAccepts(insp_filter, insp_tables[n].qname)
         THEN Append(ClassNamesOfAccepted(n - 1),
                     table2model(insp_tables[n].qname))
         ELSE ClassNamesOfAccepted(n - 1)

\* the positions of the lines yielded for table t
LinesOf(t) == {i \in DOMAIN insp_lines : insp_lines[i].table = t}

\* C26: with a callable qname_filter, a table the filter accepts gets its
\* class line and has its relations, indexes and description read; a table
\* the filter rejects contributes no line, is not read, and is not added
\* to known_models.
C26_FilterGatesEmission ==
    (pc = "inspect" /\ insp_filter.kind = "callable") =>
        /\ \A t \in 1..(insp_pos - 1) :
              LET qname == insp_tables[t].qname
              IN  IF FilterAccepts(insp_filter, qname)
                  THEN /\ \E i \in LinesOf(t) : insp_lines[i].kind = "class"
                       /\ qname \in Range(insp_reads)
                  ELSE /\ LinesOf(t) = {}
                       /\ qname \notin Range(insp_reads)
        /\ insp_known = ClassNamesOfAccepted(insp_pos - 1)

\* a finished run over three tables in which the filter rejected one table
\* and accepted a later one
C26_Witness ==
    /\ pc = "inspect"
    /\ insp_filter.kind = "callable"
    /\ Len(insp_tables) = MaxTables
    /\ insp_pos = Len(insp_tables) + 1
    /\ \E t, u \in 1..Len(insp_tables) :
          /\ t < u
          /\ ~FilterAccepts(insp_filter, insp_tables[t].qname)
          /\ FilterAccepts(insp_filter, insp_tables[u].qname)
          /\ LinesOf(t) = {}
          /\ LinesOf(u) # {}

\* whether the class line of table t precedes line i of the output
EmittedBefore(t, i) ==
    \E j \in 1..(i - 1) :
        insp_lines[j].kind = "class" /\ insp_lines[j].table = t

\* C27: a foreign key to a table whose class was emitted earlier in the run
\* is rendered with the bare class name, and one to a table whose class has
\* not been emitted yet with the class name quoted.
C27_BareIffAlreadyEmitted ==
    \A i \in DOMAIN insp_lines :
        LET line == insp_lines[i]
            rel_to == table2model(insp_tables[line.to].qname)
        IN  (line.kind = "field" /\ line.to # 0) =>
                line.field_type =
                    IF EmittedBefore(line.to, i)
                    THEN s_ForeignKey \o rel_to
                    ELSE s_ForeignKey \o s_apos \o rel_to \o s_apos

----------------------------------------------------------------------------
(* Draining the pending references of a model *)

\* the base sql_for_pending_references, called for the model with the map
\* pending and then called again with the map it left: one ADD CONSTRAINT
\* per recorded entry, in recorded order; the key is removed, every other
\* key keeps its entries, and the second call emits nothing; without a key
\* the first call emits nothing and changes nothing
DrainsOnce(model, pending) ==
    LET p == Base_sql_for_pending_references(model, pending)
        again == Base_sql_for_pending_references(model, p.pending_references)
    IN  /\ model \in DOMAIN pending =>
              /\ Len(p.output) = Len(pending[model])
              /\ \A j \in 1..Len(pending[model]) :
                    /\ p.output[j].kind = "ALTER TABLE ADD CONSTRAINT"
                    /\ <<p.output[j].model, p.output[j].field>>
                           = pending[model][j]
                    /\ p.output[j].target = model
              /\ DOMAIN p.pending_references = DOMAIN pending \ {model}
        /\ model \notin DOMAIN pending =>
              /\ p.output = << >>
              /\ p.pending_references = pending
        /\ \A k \in DOMAIN pending \ {model} :
              p.pending_references[k] = pending[k]
        /\ again.output = << >>
        /\ again.pending_references = p.pending_references

\* the batch map the caller hands over when it creates next_model
MergedForNext ==
    MapMerge(pending_references,
             sql_create_model(next_model, known_models).pending_references)

\* the ADD CONSTRAINT statements a list holds, in order
AddConstraints(stmts) ==
    SelectSeq(stmts, LAMBDA st : st.kind = "ALTER TABLE ADD CONSTRAINT")

\* on the backends that use the base method: creating a model drains its
\* key into the output and leaves the other keys of the merged map alone
DrainStep ==
    (pc = "create" /\ backend # "oracle") =>
        LET m == next_model
            merged == MapMerge(pending_references,
                               last_create'.pending_references)
            added == AddConstraints(SubSeq(output', Len(output) + 1,
                                           Len(output')))
        IN  /\ m \notin DOMAIN pending_references'
            /\ DOMAIN pending_references' = DOMAIN merged \ {m}
            /\ \A k \in DOMAIN merged \ {m} :
                  pending_references'[k] = merged[k]
            /\ Len(added) = (IF m \in DOMAIN merged THEN Len(merged[m]) ELSE 0)
            /\ \A j \in 1..Len(added) :
                  <<added[j].model, added[j].field>> = merged[m][j]

\* what the base method does with every map the run builds
DrainedOnceEverywhere ==
    /\ pc = "create" => DrainsOnce(next_model, MergedForNext)
    /\ \A m \in ModelIds : DrainsOnce(m, pending_references)

\* C28: for a managed, non-proxy model with a key in the pending-reference
\* map the base sql_for_pending_references emits one ADD CONSTRAINT per
\* recorded entry, in recorded order, and removes the key, so that a
\* repeated call emits nothing; the entries of the other keys are left
\* unchanged, and without a key the call emits nothing and changes nothing.
C28_DrainedExactlyOnce ==
    /\ [][DrainStep]_vars
    /\ []DrainedOnceEverywhere

\* a model was created whose key held two entries: both constraints are in
\* the output in recorded order and the key is gone
C28_Witness ==
    /\ backend # "oracle"
    /\ pc \in {"create", "done"}
    /\ \E m \in known_models :
          /\ m \notin DOMAIN pending_references
          /\ LET mine == SelectSeq(AddConstraints(output),
                                   LAMBDA st : st.target = m)
             IN  /\ Len(mine) = 2
                 /\ mine[1].model < mine[2].model

----------------------------------------------------------------------------
(* Oracle: Pass 1 and Pass 2 of post_create_pending_references *)

\* the (target model, grantee schema) pairs of the references to the models
\* the schema owns, the schema itself left out as a grantee
GrantPairs(schema) ==
    {p \in {<<kr[1], OwnerSchema(kr[2][1])>> :
               kr \in {x \in PendingKeyed(pending_references) :
                          OwnerSchema(x[1]) = schema}} :
        p[2] # schema}

\* the GRANT statements a list holds, in order
Grants(stmts) == SelectSeq(stmts, LAMBDA st : st.kind = "GRANT REFERENCES")

\* a step of Pass 1 for one owning schema: one GRANT per pair, each pair
\* once, on the table of the target and to the grantee, none of them to the
\* schema itself; when the statements are executed, they are handed to
\* _run_sql_as_user with the owning schema as the user
GrantStepGrantsOncePerPair ==
    (pc = "pass1" /\ todo1' # todo1) =>
        LET schema == CHOOSE s \in todo1 : s \notin todo1'
            listed == SubSeq(listing', Len(listing) + 1, Len(listing'))
            grants == Grants(listed)
        IN  /\ todo1' = todo1 \ {schema}
            /\ listed = <<Comment(schema)>> \o grants
            /\ Len(grants) = Cardinality(GrantPairs(schema))
            /\ {<<st.target, st.user>> : st \in Range(grants)}
                   = {<<p[1], quote_name(p[2])>> : p \in GrantPairs(schema)}
            /\ \A st \in Range(grants) :
                  /\ st.table = quote_name(models[st.target].db_table)
                  /\ st.user # quote_name(schema)
            /\ (~as_sql /\ grants # << >>) =>
                  /\ run'.user = schema
                  /\ run'.sql = grants
                  /\ settings_dict'.USER = schema
            /\ as_sql => post_sql' = post_sql \o listed

\* no GRANT is executed whose grantee is the user it is executed as, and
\* every GRANT is executed as the owner of the table it is about
NoSelfGrant ==
    \A j \in DOMAIN executed :
        executed[j].sql.kind = "GRANT REFERENCES" =>
            /\ executed[j].sql.user # quote_name(executed[j].user)
            /\ ~InRun => executed[j].user = OwnerSchema(executed[j].sql.target)

\* C29: Pass 1 groups the pending entries by the forced-resolved schema S of
\* the target model and issues, for each S, one GRANT REFERENCES per
\* distinct (target model, grantee schema) pair among the references to the
\* models S owns, the grantee being the schema of the referencing model;
\* a pair that occurs twice is granted once, and no GRANT has the user S
\* that executes it as its grantee.
C29_OneGrantPerPair ==
    /\ [][GrantStepGrantsOncePerPair]_vars
    /\ []NoSelfGrant

\* Pass 1 ran for a target with two references from one other schema and
\* executed a single GRANT
C29_Witness ==
    /\ backend = "oracle"
    /\ pc = "pass2"
    /\ ~as_sql
    /\ \E m \in DOMAIN pending_references :
          /\ Len(pending_references[m]) = 2
          /\ Cardinality(GrantPairs(OwnerSchema(m))) = 1
    /\ Len(Grants(ExecutedSql)) = 1

\* no GRANT comes after an ADD CONSTRAINT in the list
GrantsBeforeAlters(stmts) ==
    \A i, j \in DOMAIN stmts :
        (stmts[i].kind = "ALTER TABLE ADD CONSTRAINT"
         /\ stmts[j].kind = "GRANT REFERENCES") => j < i

\* the positions in the list of the ADD CONSTRAINT statements of the entry
\* kr = <<target, <<referencing model, field>>>>
AltersOf(stmts, kr) ==
    {j \in DOMAIN stmts :
        /\ stmts[j].kind = "ALTER TABLE ADD CONSTRAINT"
        /\ stmts[j].target = kr[1]
        /\ stmts[j].model = kr[2][1]
        /\ stmts[j].field = kr[2][2]}

\* Oracle's coordinator ran to its end
PostDone == backend = "oracle" /\ pc = "done"

\* the entry has exactly one ADD CONSTRAINT in what was listed and, when
\* the statements are executed, one that ran as the owner of the
\* referencing model
OneAlterAsOwner(kr) ==
    /\ Cardinality(AltersOf(listing, kr)) = 1
    /\ Cardinality(AltersOf(post_sql, kr)) = 1
    /\ ~as_sql =>
          /\ Cardinality(AltersOf(ExecutedSql, kr)) = 1
          /\ \A j \in AltersOf(ExecutedSql, kr) :
                executed[j].user = OwnerSchema(kr[2][1])

\* C30 as stated: every GRANT is executed and listed before any ADD
\* CONSTRAINT, and every pending entry yields exactly one ADD CONSTRAINT,
\* executed while USER is the forced-resolved schema of the referencing
\* model.
C30_EveryEntryOneAlter ==
    /\ GrantsBeforeAlters(ExecutedSql)
    /\ GrantsBeforeAlters(listing)
    /\ GrantsBeforeAlters(post_sql)
    /\ PostDone =>
          \A kr \in PendingKeyed(pending_references) : OneAlterAsOwner(kr)

\* the entry has no ADD CONSTRAINT anywhere
NoAlter(kr) ==
    /\ AltersOf(listing, kr) = {}
    /\ AltersOf(post_sql, kr) = {}
    /\ AltersOf(ExecutedSql, kr) = {}

\* C30 amended: every GRANT is executed and listed before any ADD
\* CONSTRAINT; in Pass 2 every pending entry whose target model is managed
\* and not a proxy yields exactly one ADD CONSTRAINT, executed while USER is
\* the forced-resolved schema of the referencing model, and an entry whose
\* target model is unmanaged or a proxy yields none.
C30_ManagedTargetsOneAlter ==
    /\ GrantsBeforeAlters(ExecutedSql)
    /\ GrantsBeforeAlters(listing)
    /\ GrantsBeforeAlters(post_sql)
    /\ PostDone =>
          \A kr \in PendingKeyed(pending_references) :
              IF models[kr[1]].managed /\ ~models[kr[1]].proxy
              THEN OneAlterAsOwner(kr)
              ELSE NoAlter(kr)

\* the coordinator executed both passes for a map with an entry to a managed
\* model and an entry to a proxy or unmanaged model: a GRANT ran before the
\* one ADD CONSTRAINT
C30_Witness ==
    /\ PostDone
    /\ ~as_sql
    /\ \E kr \in PendingKeyed(pending_references) :
          models[kr[1]].managed /\ ~models[kr[1]].proxy
    /\ \E kr \in PendingKeyed(pending_references) :
          ~(models[kr[1]].managed /\ ~models[kr[1]].proxy)
    /\ Grants(ExecutedSql) # << >>
    /\ Len(AddConstraints(ExecutedSql)) = 1

----------------------------------------------------------------------------
(* The map after the coordinator *)

\* C31: after Oracle's post_create_pending_references has completed
\* normally the pending-reference map is empty.
C31_MapEmptyAfterCoordinator ==
    PostDone => DOMAIN pending_references = {}

\* C32: on Oracle, after the first-pass sql_for_pending_references of a
\* model its key holds exactly the entries for which needs_separate_conn is
\* true, and is absent when there are none: the other entries were emitted
\* as ADD CONSTRAINT statements.
C32_FirstPassKeepsOnlyCrossSchema ==
    (backend = "oracle" /\ last_create.model # 0
     /\ pc \in {"create", "post", "raised"}) =>
        LET m == last_create.model
        IN  m \in DOMAIN pending_references =>
                /\ pending_references[m] # << >>
                /\ \A j \in DOMAIN pending_references[m] :
                      needs_separate_conn(
                          connection_qualified_name(pending_references[m][j][1]),
                          connection_qualified_name(m))

----------------------------------------------------------------------------
(* inspectdb on a backend that does not implement an introspection call *)

\* the positions of the lines of one kind yielded for table t
LinesOfKind(t, kind) == {i \in LinesOf(t) : insp_lines[i].kind = kind}

\* the tables before the current position that were not filtered out
Inspected == {t \in 1..(insp_pos - 1) :
                 ~Rejected(insp_filter, insp_tables[t].qname)}

\* without get_relations or get_indexes the run goes on and every table is
\* emitted: with no relations every column is an ordinary field, with no
\* indexes no column is a primary key and the id column gets its line
ModelsStillEmitted ==
    (insp_impl.table_names /\ insp_impl.get_table_description) =>
        /\ pc = "inspect"
        /\ \A t \in Inspected :
              LET fields == LinesOfKind(t, "field")
                  columns == inspect_get_table_description(insp_tables, t)
              IN  /\ Cardinality(LinesOfKind(t, "class")) = 1
                  /\ Cardinality(LinesOfKind(t, "Meta")) = 1
                  /\ ~insp_impl.get_relations =>
                        \A i \in fields : insp_lines[i].to = 0
                  /\ insp_impl.get_relations =>
                        (insp_tables[t].fk # 0 <=>
                            \E i \in fields : insp_lines[i].to # 0)
                  /\ Cardinality(fields) =
                        IF insp_impl.get_indexes THEN Len(columns) - 1
                        ELSE Len(columns)

\* without table_names nothing is yielded for any table, and without
\* get_table_description no table gets further than its class line; a
\* CommandError has no other origin
OtherCallsAbort ==
    /\ ~insp_impl.table_names => (insp_lines = << >> /\ insp_pos = 1)
    /\ ~insp_impl.get_table_description =>
          \A i \in DOMAIN insp_lines : insp_lines[i].kind = "class"
    /\ pc = "CommandError" =>
          (~insp_impl.table_names \/ ~insp_impl.get_table_description)

\* the step taken where the missing call is made ends in a CommandError
AbortStep ==
    (pc = "inspect"
     /\ \/ ~insp_impl.table_names
        \/ /\ ~insp_impl.get_table_description
           /\ insp_pos <= Len(insp_tables)
           /\ ~Rejected(insp_filter, insp_tables[insp_pos].qname))
    => pc' = "CommandError"

\* C34: a NotImplementedError of get_relations or get_indexes is replaced by
\* an empty mapping and the model of the table is still emitted; a
\* NotImplementedError of the table listing or of the table description
\* ends the command with a CommandError.
C34_OnlyRelationsAndIndexesAreOptional ==
    /\ [][AbortStep]_vars
    /\ [](pc \in {"inspect", "CommandError"} =>
             (ModelsStillEmitted /\ OtherCallsAbort))

\* a finished run on a backend without get_relations over a table that has
\* a foreign key: the table was emitted, with ordinary fields only
C34_Witness ==
    /\ pc = "inspect"
    /\ ~insp_impl.get_relations
    /\ ~insp_impl.get_indexes
    /\ insp_pos = Len(insp_tables) + 1
    /\ \E t \in Inspected :
          /\ insp_tables[t].fk # 0
          /\ Cardinality(LinesOfKind(t, "field")) = 3
          /\ LinesOfKind(t, "Meta") # {}

----------------------------------------------------------------------------
(* Pending references to a model without a table *)

\* the base sql_for_pending_references for a target that is unmanaged or a
\* proxy: no statement, the key of the target gone, every other key as it was
DiscardsTarget(model, pending) ==
    LET p == Base_sql_for_pending_references(model, pending)
    IN  /\ p.output = << >>
        /\ DOMAIN p.pending_references = DOMAIN pending \ {model}
        /\ \A k \in DOMAIN pending \ {model} :
              p.pending_references[k] = pending[k]

\* on the backends that call the base method when a model is created: the
\* step for an unmanaged or proxy model adds nothing to the output, removes
\* its key and leaves the other keys alone
DiscardStep ==
    (pc = "create" /\ backend # "oracle" /\ NoTable(next_model)) =>
        /\ output' = output
        /\ DOMAIN pending_references'
               = DOMAIN pending_references \ {next_model}
        /\ \A k \in DOMAIN pending_references \ {next_model} :
              pending_references'[k] = pending_references[k]

\* the method on every map of the run, for every model without a table
DiscardsEverywhere ==
    \A m \in ModelIds :
        NoTable(m) =>
            /\ DiscardsTarget(m, pending_references)
            /\ (pc = "create" /\ next_model = m) =>
                   DiscardsTarget(m, MergedForNext)

\* C35: for a target model that is unmanaged or a proxy,
\* sql_for_pending_references removes the key of the target from the
\* pending-reference map when it is there, emits no statement and leaves
\* every other key unchanged.
C35_UnmanagedTargetDiscarded ==
    /\ [][DiscardStep]_vars
    /\ []DiscardsEverywhere

\* an unmanaged or proxy model was created after a managed model that
\* references it and another model: the key of the model is gone, no
\* constraint to it is in the output, and the other key is still there
C35_Witness ==
    /\ backend # "oracle"
    /\ pc = "create"
    /\ last_create.model = 2
    /\ NoTable(2)
    /\ \E i \in DOMAIN models[1].local_fields :
          models[1].local_fields[i].rel = 2
    /\ 2 \notin DOMAIN pending_references
    /\ 3 \in DOMAIN pending_references
    /\ \A st \in Range(output) : st.target # 2

----------------------------------------------------------------------------
(* Constraint names *)

\* the ADD CONSTRAINT statements of the batch: those of the creation calls
\* and those of Oracle's second pass
BatchConstraints == AddConstraints(output \o listing)

\* two statements for two different pending references
DifferentReferences(a, b) == <<a.model, a.field>> # <<b.model, b.field>>

----------------------------------------------------------------------------
(* Provisioning of the test schemas *)

\* the calls a step adds to the log
NewCalls == SubSeq(prov'.calls, Len(prov.calls) + 1, Len(prov'.calls))

\* the positions in some calls where a statement of one kind was executed on
\* one name, whether it raised or not
Attempts(calls, op, name) ==
    {i \in DOMAIN calls : calls[i].op = op /\ calls[i].arg = name}

SchemaStatements(calls) ==
    {i \in DOMAIN calls : calls[i].op \in {"DROP SCHEMA", "CREATE SCHEMA"}}

\* the requested schemas the server holds before the call
Existing == {s \in Range(prov.schemas) : s \in Range(prov.server)}

\* a call of _create_test_schemas destroys only with consent, and never on
\* a backend with namespaced schemas
DestroysOnlyWithConsent ==
    \A s \in SchemaNames \cup {s_public} :
        Attempts(NewCalls, "DROP SCHEMA", s) # {} =>
            /\ prov.autoclobber \/ prov.confirm = "yes"
            /\ ~prov.namespaced_schemas
            /\ s \in Existing

\* refused: status 1, and nothing destroyed, created or recorded
RefusalExitsFirst ==
    (/\ ~prov.namespaced_schemas
     /\ Existing # {}
     /\ ~prov.autoclobber
     /\ prov.confirm # "yes") =>
        /\ pc' = "exit"
        /\ prov'.status = 1
        /\ SchemaStatements(NewCalls) = {}
        /\ prov'.server = prov.server
        /\ settings_dict'.TEST_SCHEMAS = settings_dict.TEST_SCHEMAS

\* the requested schemas that do not exist once the conflicts are destroyed
Missing ==
    LET Absent(s) == prov.namespaced_schemas => s \notin Range(prov.server)
    IN  SelectSeq(prov.schemas, Absent)

\* returned: the result is the missing schemas, each created by one
\* statement and appended once to TEST_SCHEMAS
ReturnsTheCreated ==
    pc' = "created" =>
        /\ prov'.created_schemas = Missing
        /\ \A s \in Range(Missing) :
              /\ Cardinality(Attempts(NewCalls, "CREATE SCHEMA", s)) = 1
        /\ settings_dict'.TEST_SCHEMAS = settings_dict.TEST_SCHEMAS \o Missing
        /\ \A s \in (SchemaNames \cup {s_public}) \ Range(Missing) :
              Attempts(NewCalls, "CREATE SCHEMA", s) = {}
        /\ \A s \in Range(Missing) : s \in Range(prov'.server)

CreateTestSchemasStep ==
    pc = "_create_test_schemas" =>
        /\ DestroysOnlyWithConsent
        /\ RefusalExitsFirst
        /\ ReturnsTheCreated

\* C37: base _create_test_schemas destroys a conflicting schema only when
\* autoclobber is true or the answer is 'yes'; a refusal exits with status 1
\* before any schema is destroyed or created; with namespaced schemas no
\* existing schema is destroyed; on normal return the result is the list of
\* the requested schemas that did not exist after the clobbering, each
\* created once and appended once to TEST_SCHEMAS.
C37_NoDestroyWithoutConsent == [][CreateTestSchemasStep]_vars

\* a conflicting schema was destroyed and created again, on the user's 'yes'
C37_Witness ==
    /\ pc = "created"
    /\ ~prov.autoclobber
    /\ prov.confirm = "yes"
    /\ \E s \in Range(prov.created_schemas) :
          /\ Done(prov.calls, "DROP SCHEMA") = <<s>>
          /\ s \in Range(settings_dict.TEST_SCHEMAS)
          /\ Len(prov.created_schemas) = 2

----------------------------------------------------------------------------
(* Constraint checking during provisioning *)

Disables == {i \in DOMAIN prov.calls :
                prov.calls[i].op = "disable_constraint_checking"}

\* the call that enables constraint checking again after call i, with
\* nothing but destroy statements in between
EnabledAgain(i) ==
    \E j \in DOMAIN prov.calls :
        /\ j > i
        /\ prov.calls[j].op = "enable_constraint_checking"
        /\ prov.calls[j].conn = prov.calls[i].conn
        /\ \A k \in (i + 1)..(j - 1) :
              prov.calls[k].op \in {"DROP SCHEMA", "DROP DATABASE"}

\* C38: in _create_test_schemas, _create_test_db, destroy_test_db and
\* _destroy_test_db every call of disable_constraint_checking is followed by
\* a call of enable_constraint_checking on every exit path, a raising
\* destroy or drop statement included: no operation returns, exits or
\* propagates an error with constraint checking disabled.
C38_ConstraintCheckingScoped ==
    /\ prov.unchecked = {}
    /\ \A i \in Disables : EnabledAgain(i)

\* a DROP SCHEMA of _create_test_schemas raised with constraint checking
\* disabled, and the error left the call
C38_Witness ==
    /\ pc = "raised"
    /\ \E i \in Disables :
          /\ i + 2 \in DOMAIN prov.calls
          /\ prov.calls[i + 1].op = "DROP SCHEMA"
          /\ ~prov.calls[i + 1].ok
          /\ prov.calls[i + 2].op = "enable_constraint_checking"
    /\ prov.created_schemas = << >>
    /\ Done(prov.calls, "CREATE SCHEMA") = << >>

----------------------------------------------------------------------------
(* Oracle's credentials during provisioning *)

\* Oracle's _create_test_db has returned and _destroy_test_db has not begun
TestUserInForce == backend = "oracle" /\ pc = "ora_created"

\* Oracle's _destroy_test_db has made its two assignments
DestroyBegun ==
    /\ backend = "oracle"
    /\ \/ pc = "ora_destroyed"
       \/ pc \in {"_execute_statements", "raised"}
          /\ prov.group \in {"destroy_db", "destroy_user"}

\* C39: Oracle's _create_test_db stores the original USER and PASSWORD in
\* SAVED_USER and SAVED_PASSWORD before it switches the settings to the test
\* user, and after a following _destroy_test_db USER and PASSWORD equal
\* their values from before _create_test_db, whatever TEST_CREATE and
\* TEST_USER_CREATE are.
C39_CredentialsRoundTrip ==
    /\ TestUserInForce =>
          /\ settings_dict.SAVED_USER = prov.old_settings.USER
          /\ settings_dict.SAVED_PASSWORD = prov.old_settings.PASSWORD
          /\ settings_dict.USER = prov.parameters.user
          /\ settings_dict.PASSWORD = prov.parameters.password
          /\ settings_dict.USER # prov.old_settings.USER
    /\ DestroyBegun =>
          /\ settings_dict.USER = prov.old_settings.USER
          /\ settings_dict.PASSWORD = prov.old_settings.PASSWORD

\* the test user was created and dropped again without a test database,
\* and the settings name the original user
C39_Witness ==
    /\ backend = "oracle"
    /\ pc = "ora_destroyed"
    /\ ~settings_dict.TEST_CREATE
    /\ settings_dict.TEST_USER_CREATE
    /\ Done(prov.calls, "CREATE USER") = <<TEST_DATABASE_PREFIX \o s_scott>>
    /\ Done(prov.calls, "DROP USER") = <<TEST_DATABASE_PREFIX \o s_scott>>
    /\ settings_dict.USER = s_scott
    /\ settings_dict.PASSWORD = s_tiger
    /\ settings_dict.SAVED_USER = s_scott

----------------------------------------------------------------------------
(* A failing statement *)

\* once _run_sql_as_user has caught an exception nothing more is executed,
\* no group is begun and the coordinator builds no more of its list: the
\* run goes through the finally clause and ends with the exception
NothingAfterFailure ==
    error = "DatabaseError" =>
        /\ executed' = executed
        /\ post_sql' = post_sql
        /\ todo1' = todo1
        /\ todo2' = todo2
        /\ error' = error
        /\ pc \in {"finally", "raised"}
        /\ pc' = "raised"

\* the statement that raises is not applied, those before it stay applied
FailureKeepsExecuted ==
    (error = "" /\ error' = "DatabaseError") =>
        /\ pc \in {"cursor", "execute"}
        /\ executed' = executed
        /\ pc' = "finally"

\* a raising statement of _execute_statements ends the call: the caller
\* begins another call in its except clause, exits, or the exception leaves
StatementFailureEndsCall ==
    (/\ pc = "_execute_statements"
     /\ Len(prov'.calls) > Len(prov.calls)
     /\ \E i \in DOMAIN NewCalls : ~NewCalls[i].ok) =>
        \/ prov'.call = prov.call + 1 /\ prov'.statements # Tail(prov.statements)
        \/ pc' \in {"exit", "raised"} /\ prov'.statements = << >>

FailureStep ==
    /\ NothingAfterFailure
    /\ FailureKeepsExecuted
    /\ StatementFailureEndsCall

\* within one call of _execute_statements a statement that raised is the
\* last one the cursor was handed
FailedIsLastOfCall ==
    \A i, j \in DOMAIN prov.calls :
        (/\ i < j
         /\ prov.calls[i].call > 0
         /\ prov.calls[i].call = prov.calls[j].call) => prov.calls[i].ok

\* the coordinator ends normally only without an exception
DoneWithoutError == pc \in {"done", "destroy", "destroyed"} => error = ""

\* C33: a statement that raises under _run_sql_as_user ends the run: no
\* later statement of its group, no later group of Pass 1 and no Pass 2
\* statement is executed, the exception leaves
\* post_create_pending_references, and the statements executed before stay
\* applied; _execute_statements re-raises on the first statement that
\* raises and executes none of those after it.
C33_FailureAbortsTheRest ==
    [][FailureStep]_vars /\ [](FailedIsLastOfCall /\ DoneWithoutError)

\* a grant of Pass 1 was executed, a later statement raised, and the run
\* ended with the exception while schemas were still to be visited
C33_Witness ==
    /\ pc = "raised"
    /\ error = "DatabaseError"
    /\ executed # << >>
    /\ todo1 # {} \/ todo2 # {}
    /\ last_run.raised

\* the second statement of a call of _execute_statements raised after the
\* first was executed, and the caller exited
StatementsAborted ==
    /\ pc = "exit"
    /\ prov.status = 2
    /\ \E i \in DOMAIN prov.calls :
          /\ i > 1
          /\ ~prov.calls[i].ok
          /\ prov.calls[i - 1].ok
          /\ prov.calls[i - 1].call = prov.calls[i].call
          /\ i = Len(prov.calls)
====
